---- MODULE Spec2Model ----
(***************************************************************************)
(* A model of libvintf's version-range algebra (VersionRange.h), of the    *)
(* version-range parser (parse_string.cpp), of the HAL requirement         *)
(* MatrixHal (MatrixHal.cpp) and of the folding of higher-level            *)
(* compatibility matrices into a base matrix.                              *)
(***************************************************************************)
EXTENDS Integers, Sequences, FiniteSets, TLC

VARIABLES
    op,      \* name of the last operation that ran ("init" after construction)
    vr,      \* SpecVersion: the VersionRange object under test
    ver,     \* SpecVersion: the Version argument of the last query
    str,     \* SpecVersion: the string argument of the last parse
    hal,     \* SpecCompat, SpecHal: the MatrixHal object under test
    providedInstances,  \* SpecCompat: the FqInstance set handed to isCompatible
    providedVersions,   \* SpecCompat: the Version set handed to isCompatible
    arg,     \* the argument of the last insertVersionRanges or addAllHalsAsOptional
    calls,   \* the number of insertVersionRanges or addAllHalsAsOptional calls so far
    pre,     \* the versionRanges of hal, or the entries of matrix, before the last call;
             \* SpecCheck: the pairs inserted into hal; SpecSummary: the two manifests
    matrix,  \* Spec: the base CompatibilityMatrix documents are folded into
    declared,  \* Spec: the entries the base document declared when it was parsed
    ret,     \* the value returned by the last operation
    matrices,     \* SpecAssemble, SpecCombine: the documents handed to the combination;
                  \* SpecSummary: the device and the framework matrix
    deviceLevel,  \* SpecAssemble, SpecCombine: the level of the device
    kernelLevel,  \* SpecCombine: the level of the kernel
    combined,     \* SpecAssemble, SpecCombine: the document the combination returned
    error,        \* SpecCombine, SpecCheck: the error the last operation returned
    kernels,      \* SpecKernel: the kernel entries of the matrix under check
    runtime,      \* SpecKernel: the kernel version and configs of the running system
    env,          \* SpecCheck: the flags assemble_vintf reads from the environment
    vintf         \* SpecGet: the VintfObject instance and the threads calling it

vars == <<op, vr, ver, str, hal, providedInstances, providedVersions, arg, calls, pre,
          matrix, declared, ret, matrices, deviceLevel, kernelLevel, combined, error,
          kernels, runtime, env, vintf>>

\* the variables of the combination and kernel specifications, and their values
\* in the specifications that leave them alone
combineVars == <<matrices, deviceLevel, kernelLevel, combined, error, kernels, runtime, env, vintf>>

CombineIdle ==
    /\ matrices = <<>>
    /\ deviceLevel = 0
    /\ kernelLevel = 0
    /\ combined = <<>>
    /\ error = ""
    /\ kernels = <<>>
    /\ runtime = <<>>
    /\ env = {}
    /\ vintf = <<>>

(***************************************************************************)
(* Bounds of the model.                                                    *)
(***************************************************************************)
\* largest major version of the version-algebra specification
MaxMajorV == 2
\* largest minor version of the version-algebra specification (2.3-7 against 2.8)
MaxMinorV == 8
\* longest string handed to the version-range parser
MaxStrLen == 5
\* most insertVersionRanges calls made on one requirement
MaxInserts == 2
\* most documents folded into one base document
MaxFolds == 2
\* longest versionRanges list of a requirement handed to isCompatible
MaxRanges == 2
\* largest set of provided instances handed to isCompatible
MaxProvided == 2

(***************************************************************************)
(* Version and VersionRange (include/vintf/VersionRange.h).                *)
(***************************************************************************)
Version(mj, mi) == [majorVer |-> mj, minorVer |-> mi]

\* VersionRange(size_t mjV, size_t miM, size_t mxM): stores the three numbers as given
VersionRange3(mjV, miM, mxM) == [majorVer |-> mjV, minMinor |-> miM, maxMinor |-> mxM]

\* VersionRange(size_t mjV, size_t miV) : VersionRange(mjV, miV, miV)
VersionRange2(mjV, miV) == VersionRange3(mjV, miV, miV)

\* VersionRange() : VersionRange(0u, 0u, 0u)
VersionRange0 == VersionRange3(0, 0, 0)

minVer(r) == Version(r.majorVer, r.minMinor)

maxVer(r) == Version(r.majorVer, r.maxMinor)

\* Version's operator<=: compare major, then minor
VersionLE(a, b) ==
    \/ a.majorVer < b.majorVer
    \/ a.majorVer = b.majorVer /\ a.minorVer <= b.minorVer

\* contains that compares the minor versions alone
containsMinorOnly(r, v) == r.minMinor <= v.minorVer /\ v.minorVer <= r.maxMinor

contains(r, v) == VersionLE(minVer(r), v) /\ VersionLE(v, maxVer(r))

supportedByBounded(r, v) ==
    r.majorVer = v.majorVer /\ r.minMinor <= v.minorVer /\ v.minorVer <= r.maxMinor

supportedBy(r, v) == r.majorVer = v.majorVer /\ r.minMinor <= v.minorVer

overlaps(r, other) ==
    /\ r.majorVer = other.majorVer
    /\ r.minMinor <= other.maxMinor
    /\ other.minMinor <= r.maxMinor

(***************************************************************************)
(* Strings and the version-range parser (parse_string.cpp).  A string is a *)
(* sequence of one-character strings.                                      *)
(***************************************************************************)
Digits == <<"0", "1", "2", "3", "4", "5", "6", "7", "8", "9">>

Chars == {"0", "1", "2", ".", "-"}

IsDigit(c) == \E d \in 1..10 : Digits[d] = c

DigitVal(c) == (CHOOSE d \in 1..10 : Digits[d] = c) - 1

\* android::base::ParseUint on a string of this alphabet: fails on the empty
\* string and on any character that is no decimal digit
ParseUintOk(s) == Len(s) > 0 /\ \A i \in 1..Len(s) : IsDigit(s[i])

RECURSIVE ParseUintVal(_)
ParseUintVal(s) ==
    IF Len(s) = 0 THEN 0
    ELSE 10 * ParseUintVal(SubSeq(s, 1, Len(s) - 1)) + DigitVal(s[Len(s)])

\* s.find(c, startPos): the first position >= startPos holding c, 0 for npos
\* (positions are 1-based here)
Find(s, c, startPos) ==
    IF \E i \in startPos..Len(s) : s[i] = c
    THEN CHOOSE i \in startPos..Len(s) : s[i] = c /\ \A j \in startPos..(i - 1) : s[j] # c
    ELSE 0

RECURSIVE SplitFrom(_, _, _)
SplitFrom(s, c, startPos) ==
    LET matchPos == Find(s, c, startPos) IN
    IF matchPos # 0
    THEN <<SubSeq(s, startPos, matchPos - 1)>> \o SplitFrom(s, c, matchPos + 1)
    ELSE IF startPos <= Len(s) + 1 THEN <<SubSeq(s, startPos, Len(s))>> ELSE <<>>

SplitString(s, c) == SplitFrom(s, c, 1)

\* bool parse(const std::string&, Version*): <<ok, version>>
parseVersion(s) ==
    LET v == SplitString(s, ".") IN
    IF Len(v) # 2 THEN <<FALSE, Version(0, 0)>>
    ELSE IF ~ParseUintOk(v[1]) THEN <<FALSE, Version(0, 0)>>
    ELSE IF ~ParseUintOk(v[2]) THEN <<FALSE, Version(0, 0)>>
    ELSE <<TRUE, Version(ParseUintVal(v[1]), ParseUintVal(v[2]))>>

\* parseVersionRange(s, vr, versionParser): <<ok, *vr afterwards>>, where old is
\* *vr before the call (left alone on failure)
parseVersionRange(s, old) ==
    LET v == SplitString(s, "-") IN
    IF Len(v) # 1 /\ Len(v) # 2 THEN <<FALSE, old>>
    ELSE LET mv == parseVersion(v[1]) IN
         IF ~mv[1] THEN <<FALSE, old>>
         ELSE IF Len(v) = 1
              THEN <<TRUE, VersionRange2(mv[2].majorVer, mv[2].minorVer)>>
              ELSE IF ~ParseUintOk(v[2]) THEN <<FALSE, old>>
                   ELSE <<TRUE, VersionRange3(mv[2].majorVer, mv[2].minorVer,
                                              ParseUintVal(v[2]))>>

(***************************************************************************)
(* MatrixHal (MatrixHal.cpp): a HAL requirement.  interfaces is the map    *)
(* from interface name to the set of instance names, a function whose      *)
(* domain is the set of declared interfaces.                               *)
(***************************************************************************)
\* std::map and std::set iterate in the order of their keys
InterfaceOrder == <<"IBar", "IFoo">>

InstanceOrder == <<"custom", "default", "specific", "strong">>

\* the elements of S in the order of the sequence order
Sorted(S, order) == SelectSeq(order, LAMBDA x : x \in S)

MatrixHal(n, ranges, o, intfs) ==
    [name |-> n, versionRanges |-> ranges, optional |-> o, interfaces |-> intfs]

NoInterfaces == [i \in {} |-> {}]

NoHal == MatrixHal("", <<>>, FALSE, NoInterfaces)

FqInstance(v, intf, inst) == [version |-> v, interface |-> intf, instance |-> inst]

\* FqInstance::setTo(package, major, minor, interface, instance): fails on a
\* malformed identifier; every identifier of a constructed document is well formed
setTo(package, intf, inst) ==
    /\ package # ""
    /\ \E i \in 1..Len(InterfaceOrder) : InterfaceOrder[i] = intf
    /\ \E i \in 1..Len(InstanceOrder) : InstanceOrder[i] = inst

\* MatrixInstance::isSatisfiedBy(provided) for the matrix instance
\* (r, intf, inst): same interface and instance, version supported by the range
isSatisfiedBy(r, intf, inst, provided) ==
    /\ provided.interface = intf
    /\ provided.instance = inst
    /\ supportedBy(r, provided.version)

\* getInstances(interfaceName): the instances declared for an interface
InstancesOf(h, intf) == IF intf \in DOMAIN h.interfaces THEN h.interfaces[intf] ELSE {}

RECURSIVE Concat(_)
Concat(ss) == IF Len(ss) = 0 THEN <<>> ELSE Head(ss) \o Concat(Tail(ss))

\* the (interface, instance) pairs in the order forEachInstance(vr, func) visits
\* them: interfaces by name, the instances of each by name
InstancePairs(h) ==
    LET intfs == Sorted(DOMAIN h.interfaces, InterfaceOrder)
        ofIntf(i) == LET insts == Sorted(h.interfaces[intfs[i]], InstanceOrder) IN
                     [k \in 1..Len(insts) |-> <<intfs[i], insts[k]>>]
    IN Concat([i \in 1..Len(intfs) |-> ofIntf(i)])

\* the lambda isCompatible(vr, ...) hands to forEachInstance(vr, func), run over
\* the pairs from position i on; acc = <<hasAnyInstance, versionUnsatisfied>>
RECURSIVE forEachInstanceVr(_, _, _, _, _, _)
forEachInstanceVr(h, r, pairs, i, provided, acc) ==
    IF i > Len(pairs) THEN acc
    ELSE IF setTo(h.name, pairs[i][1], pairs[i][2])
         THEN LET unsat == acc[2] \/ ~(\E p \in provided :
                                          isSatisfiedBy(r, pairs[i][1], pairs[i][2], p))
              IN IF unsat THEN <<TRUE, unsat>>
                 ELSE forEachInstanceVr(h, r, pairs, i + 1, provided, <<TRUE, unsat>>)
         ELSE forEachInstanceVr(h, r, pairs, i + 1, provided, acc)

\* isCompatible(vr, ...) with the obligations joined by OR
isCompatibleVrAnyObligation(h, r, pInstances, pVersions) ==
    LET pairs == InstancePairs(h) IN
    IF Len(pairs) > 0
    THEN \E k \in 1..Len(pairs) : \E p \in pInstances :
             isSatisfiedBy(r, pairs[k][1], pairs[k][2], p)
    ELSE \E v \in pVersions : supportedBy(r, v)

\* isCompatible(vr, ...) with the version-only check done by contains
isCompatibleVrContains(h, r, pInstances, pVersions) ==
    LET acc == forEachInstanceVr(h, r, InstancePairs(h), 1, pInstances, <<FALSE, FALSE>>)
    IN IF acc[1] THEN ~acc[2]
       ELSE \E v \in pVersions : contains(r, v)

\* isCompatible(vr, ...) that is also satisfied by a provided version alone
isCompatibleVrOrVersion(h, r, pInstances, pVersions) ==
    LET acc == forEachInstanceVr(h, r, InstancePairs(h), 1, pInstances, <<FALSE, FALSE>>)
    IN (acc[1] /\ ~acc[2]) \/ \E v \in pVersions : supportedBy(r, v)

\* isCompatible(const VersionRange& vr, providedInstances, providedVersions)
isCompatibleVr(h, r, pInstances, pVersions) ==
    LET acc == forEachInstanceVr(h, r, InstancePairs(h), 1, pInstances, <<FALSE, FALSE>>)
    IN IF acc[1] THEN ~acc[2]
       ELSE \E v \in pVersions : supportedBy(r, v)

\* std::any_of over versionRanges from position i on
RECURSIVE anyOfRanges(_, _, _, _)
anyOfRanges(h, i, pInstances, pVersions) ==
    IF i > Len(h.versionRanges) THEN FALSE
    ELSE IF isCompatibleVr(h, h.versionRanges[i], pInstances, pVersions) THEN TRUE
         ELSE anyOfRanges(h, i + 1, pInstances, pVersions)

\* isCompatible(...) with each obligation looked up under every range
isCompatibleAcrossRanges(h, pInstances, pVersions) ==
    LET pairs == InstancePairs(h) IN
    IF Len(pairs) > 0
    THEN \A k \in 1..Len(pairs) : \E i \in 1..Len(h.versionRanges) :
             \E p \in pInstances :
                 isSatisfiedBy(h.versionRanges[i], pairs[k][1], pairs[k][2], p)
    ELSE anyOfRanges(h, 1, pInstances, pVersions)

\* isCompatible(providedInstances, providedVersions)
isCompatible(h, pInstances, pVersions) == anyOfRanges(h, 1, pInstances, pVersions)

Min(a, b) == IF a <= b THEN a ELSE b

Max(a, b) == IF a >= b THEN a ELSE b

\* std::find_if over versionRanges from position i on: the position of the first
\* range e with e.overlaps(otherVr), 0 for end()
RECURSIVE findOverlapping(_, _, _)
findOverlapping(ranges, i, otherVr) ==
    IF i > Len(ranges) THEN 0
    ELSE IF overlaps(ranges[i], otherVr) THEN i
         ELSE findOverlapping(ranges, i + 1, otherVr)

\* one turn of the loop of insertVersionRanges
insertVersionRange(ranges, otherVr) ==
    LET existingVr == findOverlapping(ranges, 1, otherVr) IN
    IF existingVr = 0 THEN Append(ranges, otherVr)
    ELSE [ranges EXCEPT
             ![existingVr].minMinor = Min(ranges[existingVr].minMinor, otherVr.minMinor),
             ![existingVr].maxMinor = Max(ranges[existingVr].maxMinor, otherVr.maxMinor)]

\* the loop of insertVersionRanges over other.versionRanges from position j on
RECURSIVE insertFrom(_, _, _)
insertFrom(ranges, otherRanges, j) ==
    IF j > Len(otherRanges) THEN ranges
    ELSE insertFrom(insertVersionRange(ranges, otherRanges[j]), otherRanges, j + 1)

\* insertVersionRanges taking over the flag of the incoming requirement
insertVersionRangesAndFlag(this, incoming) ==
    [this EXCEPT !.versionRanges = insertFrom(this.versionRanges, incoming.versionRanges, 1),
                 !.optional = incoming.optional]

\* insertVersionRanges matching ranges by major version alone
insertVersionRangesByMajor(this, incoming) ==
    LET byMajor(ranges, o) ==
            IF \E k \in 1..Len(ranges) : ranges[k].majorVer = o.majorVer
            THEN LET k == CHOOSE k \in 1..Len(ranges) :
                              /\ ranges[k].majorVer = o.majorVer
                              /\ \A m \in 1..(k - 1) : ranges[m].majorVer # o.majorVer
                 IN [ranges EXCEPT ![k].minMinor = Min(ranges[k].minMinor, o.minMinor),
                                   ![k].maxMinor = Max(ranges[k].maxMinor, o.maxMinor)]
            ELSE Append(ranges, o)
        F[j \in 0..Len(incoming.versionRanges)] ==
            IF j = 0 THEN this.versionRanges
            ELSE byMajor(F[j - 1], incoming.versionRanges[j])
    IN [this EXCEPT !.versionRanges = F[Len(incoming.versionRanges)]]

\* insertVersionRanges that widens overlapping ranges and appends none
insertVersionRangesNoAppend(this, incoming) ==
    LET widen(ranges, o) ==
            IF findOverlapping(ranges, 1, o) = 0 THEN ranges
            ELSE insertVersionRange(ranges, o)
        F[j \in 0..Len(incoming.versionRanges)] ==
            IF j = 0 THEN this.versionRanges
            ELSE widen(F[j - 1], incoming.versionRanges[j])
    IN [this EXCEPT !.versionRanges = F[Len(incoming.versionRanges)]]

\* insertVersionRanges keeping the stricter minor bounds of the two ranges
insertVersionRangesNarrowing(this, incoming) ==
    LET narrow(ranges, o) ==
            LET k == findOverlapping(ranges, 1, o) IN
            IF k = 0 THEN Append(ranges, o)
            ELSE [ranges EXCEPT ![k].minMinor = Max(ranges[k].minMinor, o.minMinor),
                                ![k].maxMinor = Max(ranges[k].maxMinor, o.maxMinor)]
        F[j \in 0..Len(incoming.versionRanges)] ==
            IF j = 0 THEN this.versionRanges
            ELSE narrow(F[j - 1], incoming.versionRanges[j])
    IN [this EXCEPT !.versionRanges = F[Len(incoming.versionRanges)]]

\* void MatrixHal::insertVersionRanges(const MatrixHal& other): this afterwards
insertVersionRanges(this, incoming) ==
    [this EXCEPT !.versionRanges = insertFrom(this.versionRanges, incoming.versionRanges, 1)]

\* setOptional that leaves the flag as it is
setOptionalIgnored(this, o) == this

\* void MatrixHal::setOptional(bool o): this afterwards
setOptional(this, o) == [this EXCEPT !.optional = o]

(***************************************************************************)
(* CompatibilityMatrix: level and the HAL entries, a multimap from HAL     *)
(* name to MatrixHal, kept as the sequence of its values in the order of   *)
(* iteration (by name, entries of one name in the order they were added).  *)
(***************************************************************************)
HalNameOrder == <<"bar", "foo">>

NameIndex(n) == CHOOSE i \in 1..Len(HalNameOrder) : HalNameOrder[i] = n

CompatibilityMatrix(l, hs) == [level |-> l, hals |-> hs]

NoMatrix == CompatibilityMatrix(0, <<>>)

\* add(MatrixHal&&): the entry goes after the entries whose name is not greater;
\* <<the entries afterwards, the position of the new entry>>
add(hals, h) ==
    LET before == Cardinality({k \in 1..Len(hals) :
                                  NameIndex(hals[k].name) <= NameIndex(h.name)})
    IN <<SubSeq(hals, 1, before) \o <<h>> \o SubSeq(hals, before + 1, Len(hals)),
         before + 1>>

\* removeInstance(interface, instance): an interface left without an instance
\* is dropped from the map
removeInstance(h, intf, inst) ==
    IF intf \notin DOMAIN h.interfaces THEN h
    ELSE LET left == h.interfaces[intf] \ {inst} IN
         IF left = {}
         THEN [h EXCEPT !.interfaces =
                            [i \in (DOMAIN h.interfaces) \ {intf} |-> h.interfaces[i]]]
         ELSE [h EXCEPT !.interfaces = [h.interfaces EXCEPT ![intf] = left]]

\* MatrixHal::containsInstances(other): false at the first interface of other
\* that this entry does not declare, or whose instances it does not include
containsInstances(this, other) ==
    \A i \in DOMAIN other.interfaces :
        /\ i \in DOMAIN this.interfaces
        /\ other.interfaces[i] \subseteq this.interfaces[i]

\* hasAnyInstance / instancesCount() > 0
hasAnyInstance(h) == \E i \in DOMAIN h.interfaces : h.interfaces[i] # {}

\* splitInstance(existingHal, interface, instance) for the entry at position k:
\* <<the entries afterwards, the position of the entry that holds the instance
\* alone, 0 when the entry does not declare the instance>>
splitInstance(hals, k, intf, inst) ==
    LET found == inst \in InstancesOf(hals[k], intf) /\ Len(hals[k].versionRanges) > 0
        foundOthers ==
            \E i \in DOMAIN hals[k].interfaces :
                \E n \in hals[k].interfaces[i] : <<i, n>> # <<intf, inst>>
    IN IF ~found THEN <<hals, 0>>
       ELSE IF ~foundOthers THEN <<hals, k>>
       ELSE LET rest == removeInstance(hals[k], intf, inst)
                copy == [rest EXCEPT !.interfaces = [i \in {intf} |-> {inst}]]
            IN add([hals EXCEPT ![k] = rest], copy)

\* the loop over existingHals from position e on, for one instance of halToAdd:
\* <<the entries afterwards, whether the instance was inserted>>
RECURSIVE forEachExisting(_, _, _, _, _, _, _)
forEachExisting(hals, existingHals, e, halToAdd, intf, inst, inserted) ==
    IF e > Len(existingHals) THEN <<hals, inserted>>
    ELSE LET split == splitInstance(hals, existingHals[e], intf, inst) IN
         IF split[2] = 0
         THEN forEachExisting(hals, existingHals, e + 1, halToAdd, intf, inst, inserted)
         ELSE forEachExisting(
                  [split[1] EXCEPT ![split[2]] = insertVersionRanges(@, halToAdd)],
                  existingHals, e + 1, halToAdd, intf, inst, TRUE)

\* the loop over the instances of halToAdd from position i on:
\* <<the entries afterwards, insertedInstances>>
RECURSIVE forEachToAdd(_, _, _, _, _, _)
forEachToAdd(hals, existingHals, halToAdd, pairs, i, insertedInstances) ==
    IF i > Len(pairs) THEN <<hals, insertedInstances>>
    ELSE LET r == forEachExisting(hals, existingHals, 1, halToAdd,
                                  pairs[i][1], pairs[i][2], FALSE)
         IN forEachToAdd(r[1], existingHals, halToAdd, pairs, i + 1,
                         IF r[2] THEN insertedInstances \cup {pairs[i]}
                         ELSE insertedInstances)

RECURSIVE removeInstances(_, _, _)
removeInstances(h, pairs, i) ==
    IF i > Len(pairs) THEN h
    ELSE removeInstances(removeInstance(h, pairs[i][1], pairs[i][2]), pairs, i + 1)

\* getHals(name): the positions of the entries of that name
getHals(hals, n) == SelectSeq([k \in 1..Len(hals) |-> k], LAMBDA k : hals[k].name = n)

\* one turn of the loop of addAllHalsAsOptional over the entries of other
addHalAsOptional(hals, halToAdd) ==
    LET pairs == InstancePairs(halToAdd)
        r == forEachToAdd(hals, getHals(hals, halToAdd.name), halToAdd, pairs, 1, {})
        inserted == SelectSeq(pairs, LAMBDA p : p \in r[2])
        remaining == removeInstances(halToAdd, inserted, 1)
    IN IF hasAnyInstance(remaining)
       THEN add(r[1], setOptional(remaining, TRUE))[1]
       ELSE r[1]

RECURSIVE addHalsFrom(_, _, _)
addHalsFrom(hals, otherHals, i) ==
    IF i > Len(otherHals) THEN hals
    ELSE addHalsFrom(addHalAsOptional(hals, otherHals[i]), otherHals, i + 1)

\* bool CompatibilityMatrix::addAllHalsAsOptional(other, error): this afterwards
addAllHalsAsOptional(this, incoming) ==
    IF incoming.level <= this.level THEN this
    ELSE [this EXCEPT !.hals = addHalsFrom(this.hals, incoming.hals, 1)]

(***************************************************************************)
(* SpecVersion: the life of one VersionRange object.  It is built once, by *)
(* a constructor or by parsing a string into a default-constructed object, *)
(* and queried from then on.                                               *)
(***************************************************************************)
MajorsV == 0..MaxMajorV

MinorsV == 0..MaxMinorV

VersionsV == {Version(mj, mi) : mj \in MajorsV, mi \in MinorsV}

RECURSIVE StringsUpTo(_)
StringsUpTo(n) ==
    IF n = 0 THEN {<<>>}
    ELSE LET shorter == StringsUpTo(n - 1) IN
         shorter \cup {Append(s, c) : s \in {t \in shorter : Len(t) = n - 1}, c \in Chars}

ParseInputs == StringsUpTo(MaxStrLen)

NoVersion == Version(0, 0)

\* the variables the version-algebra specification leaves alone
otherVarsV == <<hal, providedInstances, providedVersions, arg, calls, pre, matrix, declared>>

OtherIdleV ==
    /\ hal = NoHal
    /\ providedInstances = {}
    /\ providedVersions = {}
    /\ arg = NoHal
    /\ calls = 0
    /\ pre = <<>>
    /\ matrix = NoMatrix
    /\ declared = <<>>
    /\ CombineIdle

InitVersion ==
    /\ op = "init"
    /\ vr = VersionRange0
    /\ ver = NoVersion
    /\ str = <<>>
    /\ ret = FALSE
    /\ OtherIdleV

\* VersionRange r(mjV, miM, mxM);
Construct3 ==
    /\ op = "init"
    /\ \E mjV \in MajorsV, miM \in MinorsV, mxM \in MinorsV :
            /\ vr' = VersionRange3(mjV, miM, mxM)
            /\ op' = "VersionRange3"
            /\ ret' = TRUE
            /\ ver' = NoVersion
            /\ str' = <<>>
            /\ UNCHANGED otherVarsV
            /\ UNCHANGED combineVars

\* VersionRange r(mjV, miV);
Construct2 ==
    /\ op = "init"
    /\ \E mjV \in MajorsV, miV \in MinorsV :
            /\ vr' = VersionRange2(mjV, miV)
            /\ op' = "VersionRange2"
            /\ ret' = TRUE
            /\ ver' = NoVersion
            /\ str' = <<>>
            /\ UNCHANGED otherVarsV
            /\ UNCHANGED combineVars

\* VersionRange r; parse(s, &r);
Parse ==
    /\ op = "init"
    /\ \E s \in ParseInputs :
            LET r == parseVersionRange(s, vr) IN
            /\ str' = s
            /\ vr' = r[2]
            /\ ret' = r[1]
            /\ op' = "parse"
            /\ ver' = NoVersion
            /\ UNCHANGED otherVarsV
            /\ UNCHANGED combineVars

\* r.supportedBy(v)
SupportedBy ==
    /\ op # "init"
    /\ \E v \in VersionsV :
            /\ ver' = v
            /\ ret' = supportedBy(vr, v)
            /\ op' = "supportedBy"
            /\ str' = <<>>
            /\ UNCHANGED vr
            /\ UNCHANGED otherVarsV
            /\ UNCHANGED combineVars

\* r.contains(v)
Contains ==
    /\ op # "init"
    /\ \E v \in VersionsV :
            /\ ver' = v
            /\ ret' = contains(vr, v)
            /\ op' = "contains"
            /\ str' = <<>>
            /\ UNCHANGED vr
            /\ UNCHANGED otherVarsV
            /\ UNCHANGED combineVars

NextVersion == Construct3 \/ Construct2 \/ Parse \/ SupportedBy \/ Contains

SpecVersion == InitVersion /\ [][NextVersion]_vars

(***************************************************************************)
(* SpecCompat: isCompatible is called on a HAL requirement with sets of    *)
(* provided instances and provided versions.                               *)
(***************************************************************************)
\* majors of the ranges of a requirement, and of what a manifest provides (a
\* requirement whose ranges all have one major meets a provided version of the
\* other, the major of none of its ranges)
ReqMajors == {1, 2}

ProvidedMajors == {1, 2}

\* minor versions of the ranges and versions of HAL requirements
Minors == {0, 1}

\* the well-formed ranges over the given majors
RangesOver(majors) ==
    {VersionRange3(mj, lo, hi) : mj \in majors, lo \in Minors, hi \in Minors} \cap
    {r \in [majorVer : majors, minMinor : Minors, maxMinor : Minors] :
        r.minMinor <= r.maxMinor}

\* the sequences over S of length 1 to n
RECURSIVE SeqsUpTo(_, _)
SeqsUpTo(S, n) ==
    IF n = 0 THEN {}
    ELSE {<<x>> : x \in S} \cup
         {<<x>> \o s : x \in S, s \in SeqsUpTo(S, n - 1)}

\* the subsets of S with at most n elements
RECURSIVE SubsetsUpTo(_, _)
SubsetsUpTo(S, n) ==
    IF n = 0 THEN {{}}
    ELSE LET smaller == SubsetsUpTo(S, n - 1) IN
         smaller \cup {T \cup {x} : T \in smaller, x \in S}

\* the interface maps over the given interfaces and instances: an interface is
\* undeclared, or declared with a set of instances, which may be empty
InterfaceMaps(intfs, insts) ==
    UNION {[D -> SUBSET insts] : D \in SUBSET intfs}

CompatHals ==
    {MatrixHal("foo", ranges, FALSE, m) :
        ranges \in SeqsUpTo(RangesOver(ReqMajors), MaxRanges),
        m \in InterfaceMaps({"IFoo"}, {"default", "specific"})}

CompatVersions == {Version(mj, mi) : mj \in ProvidedMajors, mi \in Minors}

CompatInstances ==
    {FqInstance(v, "IFoo", inst) : v \in CompatVersions, inst \in {"default", "specific"}}

InitCompat ==
    /\ op = "init"
    /\ hal \in CompatHals
    /\ providedInstances \in SubsetsUpTo(CompatInstances, MaxProvided)
    /\ providedVersions \in SubsetsUpTo(CompatVersions, 1)
    /\ ret = FALSE
    /\ vr = VersionRange0
    /\ ver = NoVersion
    /\ str = <<>>
    /\ arg = NoHal
    /\ calls = 0
    /\ pre = <<>>
    /\ matrix = NoMatrix
    /\ declared = <<>>
    /\ CombineIdle

\* hal.isCompatible(providedInstances, providedVersions)
IsCompatible ==
    /\ op = "init"
    /\ ret' = isCompatible(hal, providedInstances, providedVersions)
    /\ op' = "isCompatible"
    /\ UNCHANGED <<hal, providedInstances, providedVersions, vr, ver, str, arg, calls, pre, matrix, declared>>
    /\ UNCHANGED combineVars

\* hal.isCompatible(vr, providedInstances, providedVersions) for a range vr of hal
IsCompatibleVr ==
    \E i \in 1..Len(hal.versionRanges) :
        /\ op = "init"
        /\ vr' = hal.versionRanges[i]
        /\ ret' = isCompatibleVr(hal, hal.versionRanges[i], providedInstances,
                                 providedVersions)
        /\ op' = "isCompatibleVr"
        /\ UNCHANGED <<hal, providedInstances, providedVersions, ver, str, arg, calls, pre, matrix, declared>>
        /\ UNCHANGED combineVars

NextCompat == IsCompatible \/ IsCompatibleVr

SpecCompat == InitCompat /\ [][NextCompat]_vars

(***************************************************************************)
(* The matching algorithm: claims C1 to C3.                                *)
(***************************************************************************)
\* the (interface, instance) obligations a requirement declares
Obligations(h) == UNION {{<<i, n>> : n \in InstancesOf(h, i)} : i \in DOMAIN h.interfaces}

\* some provided instance meets obligation o under range r
ObligationMet(r, o, pInstances) ==
    \E p \in pInstances :
        /\ p.interface = o[1]
        /\ p.instance = o[2]
        /\ p.version.majorVer = r.majorVer
        /\ p.version.minorVer >= r.minMinor

\* range r of requirement h is satisfied on its own
RangeSatisfied(h, r, pInstances, pVersions) ==
    IF Obligations(h) = {}
    THEN \E v \in pVersions : v.majorVer = r.majorVer /\ v.minorVer >= r.minMinor
    ELSE \A o \in Obligations(h) : ObligationMet(r, o, pInstances)

RangeSet(h) == {h.versionRanges[i] : i \in 1..Len(h.versionRanges)}

\* the majors of everything provided
ProvidedMajorsOf(pInstances, pVersions) ==
    {p.version.majorVer : p \in pInstances} \cup {v.majorVer : v \in pVersions}

\* C1: isCompatible(providedInstances, providedVersions) is true if and only if
\* some single range of the requirement is satisfied on its own, and it is false
\* whenever no provided major is the major of a range.
C1_AnyRangeOnItsOwn ==
    op = "isCompatible" =>
        /\ ret <=> \E r \in RangeSet(hal) :
                      RangeSatisfied(hal, r, providedInstances, providedVersions)
        /\ (ProvidedMajorsOf(providedInstances, providedVersions) \cap
                {r.majorVer : r \in RangeSet(hal)} = {}) => ~ret

\* C1 witness: two obligations, each met under a different range only, and the
\* requirement is not satisfied.
C1_Witness ==
    /\ op = "isCompatible"
    /\ ~ret
    /\ Cardinality(Obligations(hal)) = 2
    /\ Len(hal.versionRanges) = 2
    /\ \A o \in Obligations(hal) :
           \E r \in RangeSet(hal) : ObligationMet(r, o, providedInstances)

\* C2: for a requirement that declares an obligation, a range is satisfied if
\* and only if every declared obligation is met under that range by some
\* provided instance.
C2_AllObligationsPerRange ==
    (op = "isCompatibleVr" /\ Obligations(hal) # {}) =>
        (ret <=> \A o \in Obligations(hal) : ObligationMet(vr, o, providedInstances))

\* C2 witness: one of two obligations is met, the other is missing, and the
\* range is not satisfied.
C2_Witness ==
    /\ op = "isCompatibleVr"
    /\ ~ret
    /\ Cardinality(Obligations(hal)) = 2
    /\ \E o \in Obligations(hal) : ObligationMet(vr, o, providedInstances)
    /\ \E o \in Obligations(hal) : ~ObligationMet(vr, o, providedInstances)

\* C3: for a requirement that declares no obligation, isCompatible is true if
\* and only if some provided version is supported by some range, whatever the
\* provided instances are.
C3_VersionPresenceOnly ==
    (op = "isCompatible" /\ Obligations(hal) = {}) =>
        (ret <=> \E v \in providedVersions : \E r \in RangeSet(hal) :
                     v.majorVer = r.majorVer /\ v.minorVer >= r.minMinor)

\* C3 witness: no obligation, a provided version above the range's maximum
\* minor, provided instances present, and the requirement is satisfied.
C3_Witness ==
    /\ op = "isCompatible"
    /\ ret
    /\ Obligations(hal) = {}
    /\ providedInstances # {}
    /\ \E v \in providedVersions : \E r \in RangeSet(hal) :
           v.majorVer = r.majorVer /\ v.minorVer > r.maxMinor

(***************************************************************************)
(* The version algebra: claims C4 and C6.                                  *)
(***************************************************************************)
\* C4: r.supportedBy(v) holds if and only if v has the major of r and a minor
\* of at least minMinor; a version of the same major with a minor above
\* maxMinor is supported by a range with minMinor <= maxMinor, and contains is
\* false for every version with a minor above maxMinor.
C4_SupportedByHasNoUpperBound ==
    /\ op = "supportedBy" =>
           /\ ret <=> (ver.majorVer = vr.majorVer /\ ~(ver.minorVer < vr.minMinor))
           /\ (/\ ver.majorVer = vr.majorVer
               /\ vr.minMinor <= vr.maxMinor
               /\ ver.minorVer > vr.maxMinor) => ret
           /\ vr = VersionRange3(2, 3, 7) =>
                  (ret <=> ver \in {Version(2, mi) : mi \in 3..MaxMinorV})
    /\ (op = "contains" /\ ver.minorVer > vr.maxMinor) => ~ret

\* C4 witness: 2.8 is supported by 2.3-7.
C4_Witness ==
    /\ op = "supportedBy"
    /\ vr = VersionRange3(2, 3, 7)
    /\ ver = Version(2, 8)
    /\ ret

\* C6: every VersionRange that exists has minMinor <= maxMinor, whether built by
\* a constructor or by parsing a string.
C6_MinMinorLeMaxMinor ==
    (op \in {"VersionRange3", "VersionRange2", "parse"} /\ ret) =>
        vr.minMinor <= vr.maxMinor

(***************************************************************************)
(* SpecHal: insertVersionRanges is called again and again on one HAL       *)
(* requirement whose ranges are pairwise non-overlapping to begin with.    *)
(***************************************************************************)
PairwiseNonOverlapping(ranges) ==
    \A i \in 1..Len(ranges) : \A j \in 1..Len(ranges) :
        i # j => ~overlaps(ranges[i], ranges[j])

\* the version lists of a requirement: well-formed ranges, no two overlapping
RangeLists(n) ==
    {s \in SeqsUpTo(RangesOver(ReqMajors), n) : PairwiseNonOverlapping(s)}

FooDefault == [i \in {"IFoo"} |-> {"default"}]

InitHal ==
    /\ op = "init"
    /\ hal \in {MatrixHal("foo", ranges, o, FooDefault) :
                    ranges \in RangeLists(2), o \in BOOLEAN}
    /\ arg = NoHal
    /\ calls = 0
    /\ pre = <<>>
    /\ matrix = NoMatrix
    /\ declared = <<>>
    /\ CombineIdle
    /\ ret = FALSE
    /\ vr = VersionRange0
    /\ ver = NoVersion
    /\ str = <<>>
    /\ providedInstances = {}
    /\ providedVersions = {}

\* hal.insertVersionRanges(incoming)
InsertVersionRanges ==
    \E incoming \in {MatrixHal("foo", ranges, FALSE, FooDefault) :
                        ranges \in RangeLists(2)} :
        /\ calls < MaxInserts
        /\ calls' = calls + 1
        /\ pre' = hal.versionRanges
        /\ arg' = incoming
        /\ hal' = insertVersionRanges(hal, incoming)
        /\ op' = "insertVersionRanges"
        /\ ret' = TRUE
        /\ UNCHANGED <<vr, ver, str, providedInstances, providedVersions, matrix, declared>>
        /\ UNCHANGED combineVars

NextHal == InsertVersionRanges

SpecHal == InitHal /\ [][NextHal]_vars

(***************************************************************************)
(* insertVersionRanges: claims C5 and C7.                                  *)
(***************************************************************************)
\* C5: after any sequence of insertVersionRanges calls on a requirement whose
\* ranges were pairwise non-overlapping, no two of its ranges have the same
\* major version and intersecting minor intervals.
C5_RangesStayNonOverlapping == PairwiseNonOverlapping(hal.versionRanges)

\* the positions of the ranges that have the major of o and a minor interval
\* that meets the one of o
Meeting(ranges, o) ==
    {i \in 1..Len(ranges) :
        /\ ranges[i].majorVer = o.majorVer
        /\ \E m \in Minors : /\ ranges[i].minMinor <= m /\ m <= ranges[i].maxMinor
                             /\ o.minMinor <= m /\ m <= o.maxMinor}

\* the list after one incoming range: the first range meeting it is widened to
\* the union of the two, and a range meeting none is appended
Folded(ranges, o) ==
    IF Meeting(ranges, o) = {} THEN ranges \o <<o>>
    ELSE LET i == CHOOSE i \in Meeting(ranges, o) : \A k \in Meeting(ranges, o) : i <= k
             lo == IF o.minMinor < ranges[i].minMinor THEN o.minMinor
                   ELSE ranges[i].minMinor
             hi == IF o.maxMinor > ranges[i].maxMinor THEN o.maxMinor
                   ELSE ranges[i].maxMinor
         IN [k \in 1..Len(ranges) |->
                IF k = i THEN VersionRange3(o.majorVer, lo, hi) ELSE ranges[k]]

RECURSIVE FoldedAll(_, _)
FoldedAll(ranges, incoming) ==
    IF incoming = <<>> THEN ranges
    ELSE FoldedAll(Folded(ranges, Head(incoming)), Tail(incoming))

\* C7 as amended: an incoming range that overlaps a range of the entry (same
\* major, intersecting minor intervals) widens the first such range to the union
\* of the two and adds no range; an incoming range that overlaps none, one of
\* the same major with a disjoint minor interval included, is appended.
C7_UnionOfOverlappingRanges ==
    op = "insertVersionRanges" =>
        hal.versionRanges = FoldedAll(pre, arg.versionRanges)

\* C7 witness: an entry with the one range 1.1 folded with 1.0-1 holds the one
\* range 1.0-1.
C7_Witness ==
    /\ op = "insertVersionRanges"
    /\ pre = <<VersionRange3(1, 1, 1)>>
    /\ arg.versionRanges = <<VersionRange3(1, 0, 1)>>
    /\ hal.versionRanges = <<VersionRange3(1, 0, 1)>>

\* C7 as claimed: whenever an incoming range has the major of a range of the
\* entry, the entry afterwards holds one range of that major, from the smaller
\* minMinor to the larger maxMinor of the two.
C7_UnionBySameMajor ==
    op = "insertVersionRanges" =>
        \A i \in 1..Len(pre) : \A j \in 1..Len(arg.versionRanges) :
            pre[i].majorVer = arg.versionRanges[j].majorVer =>
                /\ Cardinality({k \in 1..Len(hal.versionRanges) :
                       hal.versionRanges[k].majorVer = pre[i].majorVer}) = 1
                /\ \E k \in 1..Len(hal.versionRanges) :
                       hal.versionRanges[k] =
                           VersionRange3(pre[i].majorVer,
                                         Min(pre[i].minMinor, arg.versionRanges[j].minMinor),
                                         Max(pre[i].maxMinor, arg.versionRanges[j].maxMinor))

(***************************************************************************)
(* Spec: higher-level documents are folded one after the other into a base *)
(* document, as assembleCompatibilityMatrix does with the framework        *)
(* matrices above the device level.                                        *)
(***************************************************************************)
\* the interface maps of the entries: IFoo with one or both of two instances
FoldInterfaces == {[i \in {"IFoo"} |-> insts] : insts \in (SUBSET {"custom", "default"}) \ {{}}}

FoldRanges == {<<VersionRange3(1, 0, 0)>>, <<VersionRange3(1, 0, 1)>>,
               <<VersionRange3(1, 1, 1)>>, <<VersionRange3(2, 0, 0)>>}

FooEntries ==
    {MatrixHal("foo", ranges, o, m) :
        ranges \in FoldRanges, o \in BOOLEAN, m \in FoldInterfaces}

BarEntries ==
    {MatrixHal("bar", <<VersionRange3(1, 0, 0)>>, o, [i \in {"IFoo"} |-> {"default"}]) :
        o \in BOOLEAN}

\* the base document: level 1, no entry or one entry
BaseDocs ==
    {CompatibilityMatrix(1, <<>>)} \cup {CompatibilityMatrix(1, <<h>>) : h \in FooEntries}

\* the documents folded in: level 2, and one of level 1, which is not above the
\* base
HigherDocs ==
    {CompatibilityMatrix(2, <<h>>) : h \in FooEntries \cup BarEntries} \cup
    {CompatibilityMatrix(1, <<MatrixHal("foo", <<VersionRange3(2, 0, 0)>>, FALSE,
                                        [i \in {"IFoo"} |-> {"default"}])>>)}

Init ==
    /\ op = "init"
    /\ matrix \in BaseDocs
    /\ declared = matrix.hals
    /\ CombineIdle
    /\ arg = NoMatrix
    /\ pre = <<>>
    /\ calls = 0
    /\ ret = FALSE
    /\ hal = NoHal
    /\ vr = VersionRange0
    /\ ver = NoVersion
    /\ str = <<>>
    /\ providedInstances = {}
    /\ providedVersions = {}

\* matrix.addAllHalsAsOptional(&incoming, &error)
AddAllHalsAsOptional ==
    \E incoming \in HigherDocs :
        /\ calls < MaxFolds
        /\ calls' = calls + 1
        /\ pre' = matrix.hals
        /\ arg' = incoming
        /\ matrix' = addAllHalsAsOptional(matrix, incoming)
        /\ op' = "addAllHalsAsOptional"
        /\ ret' = TRUE
        /\ UNCHANGED <<declared, hal, vr, ver, str, providedInstances, providedVersions>>
        /\ UNCHANGED combineVars

Next == AddAllHalsAsOptional

Spec == Init /\ [][Next]_vars

(***************************************************************************)
(* Folding documents into the base: claims C8 to C10.                      *)
(***************************************************************************)
\* the positions of the entries of hals that declare instance o of HAL n
Declaring(hals, n, o) ==
    {k \in 1..Len(hals) : hals[k].name = n /\ o \in Obligations(hals[k])}

\* C8: after any sequence of folds, every (interface, instance) requirement the
\* base document declared is declared with the flag the base gave it, and with
\* no other flag.
C8_BaseFlagsKept ==
    \A d \in 1..Len(declared) : \A o \in Obligations(declared[d]) :
        {matrix.hals[k].optional : k \in Declaring(matrix.hals, declared[d].name, o)}
            = {declared[d].optional}

\* C8 witness: a required base entry with two instances has been split in two
\* by folding an optional requirement in, and both halves are required.
C8_Witness ==
    /\ op = "addAllHalsAsOptional"
    /\ Len(declared) = 1
    /\ ~declared[1].optional
    /\ Cardinality(Obligations(declared[1])) = 2
    /\ arg.level > matrix.level
    /\ arg.hals[1].optional
    /\ arg.hals[1].name = declared[1].name
    /\ \E a \in 1..Len(matrix.hals) : \E b \in 1..Len(matrix.hals) :
           /\ a # b
           /\ Obligations(matrix.hals[a]) \cup Obligations(matrix.hals[b])
                  = Obligations(declared[1])
           /\ Obligations(matrix.hals[a]) \cap Obligations(matrix.hals[b]) = {}
           /\ ~matrix.hals[a].optional
           /\ ~matrix.hals[b].optional

\* entry e declares nothing the base document declared: it was added by a fold
AddedEntry(e) ==
    \A d \in 1..Len(declared) :
        declared[d].name # e.name \/ Obligations(e) \cap Obligations(declared[d]) = {}

\* C9: every entry a fold added to the base as a new entry is optional.
C9_AddedEntriesOptional ==
    \A k \in 1..Len(matrix.hals) : AddedEntry(matrix.hals[k]) => matrix.hals[k].optional

\* C9 witness: a requirement declared required by the higher-level document was
\* added beside a base entry of the same HAL with another instance, as optional.
C9_Witness ==
    /\ op = "addAllHalsAsOptional"
    /\ Len(declared) = 1
    /\ ~arg.hals[1].optional
    /\ arg.hals[1].name = declared[1].name
    /\ Len(matrix.hals) = Len(pre) + 1
    /\ \E k \in 1..Len(matrix.hals) :
           /\ AddedEntry(matrix.hals[k])
           /\ matrix.hals[k].optional
           /\ matrix.hals[k].versionRanges = arg.hals[1].versionRanges

MajorsOf(ranges) == {ranges[i].majorVer : i \in 1..Len(ranges)}

\* C10: when a folded requirement names the HAL and an instance of an entry of
\* the base and only other major versions, the instance is still declared by
\* one entry, whose version list is the old list followed by the incoming
\* ranges and whose flag is the one it had.
C10_NewMajorJoinsTheEntry ==
    (op = "addAllHalsAsOptional" /\ arg.level > matrix.level) =>
        \A k \in 1..Len(pre) : \A o \in Obligations(pre[k]) \cap Obligations(arg.hals[1]) :
            (/\ pre[k].name = arg.hals[1].name
             /\ MajorsOf(pre[k].versionRanges) \cap MajorsOf(arg.hals[1].versionRanges) = {})
            => /\ Cardinality(Declaring(matrix.hals, pre[k].name, o)) = 1
               /\ \A e \in Declaring(matrix.hals, pre[k].name, o) :
                      /\ matrix.hals[e].versionRanges
                             = pre[k].versionRanges \o arg.hals[1].versionRanges
                      /\ matrix.hals[e].optional = pre[k].optional

\* C10 witness: required foo@1.0::IFoo/default folded with foo@2.0::IFoo/default
\* is the one required entry foo@1.0, 2.0::IFoo/default.
C10_Witness ==
    /\ op = "addAllHalsAsOptional"
    /\ pre = <<MatrixHal("foo", <<VersionRange3(1, 0, 0)>>, FALSE, FooDefault)>>
    /\ arg.hals[1].versionRanges = <<VersionRange3(2, 0, 0)>>
    /\ matrix.hals = <<MatrixHal("foo", <<VersionRange3(1, 0, 0), VersionRange3(2, 0, 0)>>,
                                 FALSE, FooDefault)>>

(***************************************************************************)
(* Folding against a manifest: claim C11.                                  *)
(***************************************************************************)
\* the instances a manifest can provide for HAL foo
FoldProvided ==
    {FqInstance(Version(mj, mi), "IFoo", "default") : mj \in {1, 2}, mi \in {0, 1}}
        \cup {FqInstance(Version(1, mi), "IFoo", "custom") : mi \in {0, 1}}

\* the instances of a manifest that belong to the HAL of the given name
OfPackage(n, pFoo) == IF n = "foo" THEN pFoo ELSE {}

\* every required entry of hals is compatible with the instances the manifest
\* provides for the entry's HAL and with the versions of those instances
SatisfiesRequired(hals, pFoo) ==
    \A k \in 1..Len(hals) :
        \/ hals[k].optional
        \/ isCompatible(hals[k], OfPackage(hals[k].name, pFoo),
                        {p.version : p \in OfPackage(hals[k].name, pFoo)})

\* C11: after any sequence of folds, a set of provided instances that satisfies
\* every required entry the base document declared satisfies every required
\* entry of the combined document.
C11_FoldNeverStricter ==
    \A pFoo \in SUBSET FoldProvided :
        SatisfiesRequired(declared, pFoo) => SatisfiesRequired(matrix.hals, pFoo)

\* C11 witness: a required base entry was widened by a fold, a manifest that
\* satisfies the base document satisfies the combined one, and another
\* manifest satisfies the combined document only.
C11_Witness ==
    /\ op = "addAllHalsAsOptional"
    /\ Len(declared) = 1
    /\ ~declared[1].optional
    /\ arg.level > matrix.level
    /\ matrix.hals # declared
    /\ \E pFoo \in SUBSET FoldProvided :
           /\ SatisfiesRequired(declared, pFoo)
           /\ SatisfiesRequired(matrix.hals, pFoo)
    /\ \E pFoo \in SUBSET FoldProvided :
           /\ ~SatisfiesRequired(declared, pFoo)
           /\ SatisfiesRequired(matrix.hals, pFoo)

(***************************************************************************)
(* SpecAssemble: assembleCompatibilityMatrix (assemble_vintf.cpp) picks    *)
(* the framework matrix of the device level as the base and folds the      *)
(* matrices of higher levels into it.                                      *)
(***************************************************************************)
\* largest level of a framework compatibility matrix
MaxLevel == 3

\* Level::UNSPECIFIED, the level of a manifest that declares none; it compares
\* greater than every level a document can declare
UNSPECIFIED == MaxLevel + 1

Levels == 1..MaxLevel

\* Level getLowestFcmVersion(const CompatibilityMatrices& matrices), from
\* position i on with ret so far
RECURSIVE getLowestFcmVersion(_, _, _)
getLowestFcmVersion(ms, i, lowest) ==
    IF i > Len(ms) THEN lowest
    ELSE IF lowest = UNSPECIFIED \/ lowest > ms[i].level
         THEN getLowestFcmVersion(ms, i + 1, ms[i].level)
         ELSE getLowestFcmVersion(ms, i + 1, lowest)

\* the device level assembleCompatibilityMatrix works with: the level of the
\* check manifest, or the lowest level of the matrices when it has none
effectiveLevel(ms, checkLevel) ==
    IF checkLevel = UNSPECIFIED THEN getLowestFcmVersion(ms, 1, UNSPECIFIED)
    ELSE checkLevel

\* the first loop over the matrices: matrix = &e.second for every matrix of the
\* device level, so the last of them stays; 0 for nullptr
RECURSIVE selectBase(_, _, _, _)
selectBase(ms, i, dl, found) ==
    IF i > Len(ms) THEN found
    ELSE selectBase(ms, i + 1, dl, IF ms[i].level = dl THEN i ELSE found)

\* the second loop with every matrix at or above the device level folded in,
\* whatever the level of the base
RECURSIVE foldAtOrAbove(_, _, _, _)
foldAtOrAbove(m, ms, i, dl) ==
    IF i > Len(ms) THEN m
    ELSE IF ms[i].level < dl THEN foldAtOrAbove(m, ms, i + 1, dl)
         ELSE foldAtOrAbove([m EXCEPT !.hals = addHalsFrom(m.hals, ms[i].hals, 1)],
                            ms, i + 1, dl)

\* the second loop over the matrices from position i on: a matrix of a level
\* at or below the device level is skipped, the others are folded into the base
RECURSIVE foldHigher(_, _, _, _)
foldHigher(m, ms, i, dl) ==
    IF i > Len(ms) THEN m
    ELSE IF ms[i].level <= dl THEN foldHigher(m, ms, i + 1, dl)
         ELSE foldHigher(addAllHalsAsOptional(m, ms[i]), ms, i + 1, dl)

\* bool assembleCompatibilityMatrix(CompatibilityMatrices* matrices) for
\* framework matrices: whether it succeeded and the matrix it wrote
assembleCompatibilityMatrix(ms, checkLevel) ==
    LET dl == effectiveLevel(ms, checkLevel)
        base == selectBase(ms, 1, dl, 0)
    IN IF base = 0 THEN [ok |-> FALSE, matrix |-> NoMatrix]
       ELSE [ok |-> TRUE, matrix |-> foldHigher(ms[base], ms, 1, dl)]

\* the HAL entries of the matrices handed to the assembly
AssembleEntries ==
    {MatrixHal("foo", ranges, o, m) :
        ranges \in {<<VersionRange3(1, 0, 0)>>, <<VersionRange3(1, 0, 1)>>,
                    <<VersionRange3(2, 0, 0)>>},
        o \in BOOLEAN, m \in FoldInterfaces} \cup BarEntries

AssembleDocs ==
    {CompatibilityMatrix(l, hs) :
        l \in Levels, hs \in {<<>>} \cup {<<h>> : h \in AssembleEntries}}

\* the documents of the lists of three
AssembleDocs3 ==
    {CompatibilityMatrix(l, <<MatrixHal(n, <<VersionRange3(mj, 0, 0)>>, FALSE, FooDefault)>>) :
        l \in Levels, n \in {"foo", "bar"}, mj \in {1, 2}}

AssembleInputs ==
    {<<a>> : a \in AssembleDocs} \cup
    {<<a, b>> : a \in AssembleDocs, b \in AssembleDocs} \cup
    {<<a, b, c>> : a \in AssembleDocs3, b \in AssembleDocs3, c \in AssembleDocs3}

InitAssemble ==
    /\ op = "init"
    /\ matrices \in AssembleInputs
    /\ deviceLevel \in Levels \cup {UNSPECIFIED}
    /\ combined = NoMatrix
    /\ ret = FALSE
    /\ kernelLevel = 0
    /\ error = ""
    /\ kernels = <<>>
    /\ runtime = <<>>
    /\ env = {}
    /\ vintf = <<>>
    /\ vr = VersionRange0
    /\ ver = NoVersion
    /\ str = <<>>
    /\ hal = NoHal
    /\ providedInstances = {}
    /\ providedVersions = {}
    /\ arg = NoHal
    /\ calls = 0
    /\ pre = <<>>
    /\ matrix = NoMatrix
    /\ declared = <<>>

\* assembleCompatibilityMatrix(&matrices) with a check manifest of level
\* deviceLevel
AssembleCompatibilityMatrix ==
    /\ op = "init"
    /\ LET r == assembleCompatibilityMatrix(matrices, deviceLevel) IN
           /\ combined' = r.matrix
           /\ ret' = r.ok
    /\ op' = "assembleCompatibilityMatrix"
    /\ UNCHANGED <<matrices, deviceLevel, kernelLevel, error, kernels, runtime, env, vintf>>
    /\ UNCHANGED <<vr, ver, str, hal, providedInstances, providedVersions, arg, calls, pre,
                   matrix, declared>>

NextAssemble == AssembleCompatibilityMatrix

SpecAssemble == InitAssemble /\ [][NextAssemble]_vars

Requires(e, n, o, r) ==
    /\ e.name = n
    /\ o \in Obligations(e)
    /\ \E k \in 1..Len(e.versionRanges) :
           /\ e.versionRanges[k].majorVer = r.majorVer
           /\ e.versionRanges[k].minMinor <= r.minMinor
           /\ e.versionRanges[k].maxMinor >= r.maxMinor

\* some entry of hals requires instance o of HAL n at range r
ContainsRequirement(hals, n, o, r) ==
    \E k \in 1..Len(hals) : Requires(hals[k], n, o, r)

\* some entry of hals requires instance o of HAL n at the major version mj
RequiresMajor(hals, n, o, mj) ==
    \E k \in 1..Len(hals) :
        /\ hals[k].name = n
        /\ o \in Obligations(hals[k])
        /\ mj \in MajorsOf(hals[k].versionRanges)

\* C16: the assembled matrix contains every HAL requirement of every input
\* matrix of the device level or above, and every requirement it contains
\* comes from such a matrix.
C16_HalsOfLevelsAtOrAbove ==
    (op = "assembleCompatibilityMatrix" /\ ret) =>
        LET dl == effectiveLevel(matrices, deviceLevel) IN
        /\ \A i \in 1..Len(matrices) : matrices[i].level >= dl =>
               \A h \in 1..Len(matrices[i].hals) :
                   \A o \in Obligations(matrices[i].hals[h]) :
                       \A k \in 1..Len(matrices[i].hals[h].versionRanges) :
                           ContainsRequirement(combined.hals, matrices[i].hals[h].name, o,
                                               matrices[i].hals[h].versionRanges[k])
        /\ \A e \in 1..Len(combined.hals) :
               \A o \in Obligations(combined.hals[e]) :
                   \A mj \in MajorsOf(combined.hals[e].versionRanges) :
                       \E i \in 1..Len(matrices) :
                           /\ matrices[i].level >= dl
                           /\ RequiresMajor(matrices[i].hals, combined.hals[e].name, o, mj)

(***************************************************************************)
(* Framework compatibility matrices with their kernel requirements and     *)
(* singleton fields, and CompatibilityMatrix::combine over a list of them. *)
(***************************************************************************)
KernelVersion(v, mj, mi) == [version |-> v, majorRev |-> mj, minorRev |-> mi]

\* KernelVersion::dropMinor(): the version a <kernel> tag is a requirement for
dropMinor(kv) == <<kv.version, kv.majorRev>>

\* a <kernel> tag: minLts, <conditions>, <config>s and the level of the matrix
\* it comes from (UNSPECIFIED when the tag has no level attribute)
MatrixKernel(kv, conds, cfgs, l) ==
    [minLts |-> kv, conditions |-> conds, configs |-> cfgs, level |-> l]

\* absent <sepolicy> and <avb> fields
NoSepolicy == <<>>

NoAvb == <<>>

\* a framework compatibility matrix
FrameworkMatrix(l, hs, ks, sep, avb) ==
    [level |-> l, hals |-> hs, kernels |-> ks, sepolicy |-> sep, avb |-> avb]

\* the result of a failed combination (nullptr)
NoDocument == FrameworkMatrix(0, <<>>, <<>>, NoSepolicy, NoAvb)

\* the file names of the matrices, by their position in the list
FileNames == <<"compatibility_matrix.1.xml", "compatibility_matrix.2.xml",
               "compatibility_matrix.3.xml">>

\* the check of the <kernel> tags when a matrix is parsed: the first tag of
\* each version x.y has empty <conditions>
acceptsKernels(ks) ==
    \A k \in 1..Len(ks) :
        (\A j \in 1..(k - 1) : dropMinor(ks[j].minLts) # dropMinor(ks[k].minLts))
            => ks[k].conditions = <<>>

\* HalGroup::addAll: the entries of other added to the entries of this
RECURSIVE addAllHals(_, _, _)
addAllHals(hals, otherHals, i) ==
    IF i > Len(otherHals) THEN hals
    ELSE addAllHals(add(hals, otherHals[i])[1], otherHals, i + 1)

\* the conflict error that names the field alone
conflictErrorFieldOnly(field, file, previous) == <<field \o " is already defined">>

\* the conflict error for a singleton field: the field, the file being merged
\* and the file that defined the field
conflictError(field, file, previous) ==
    <<field \o " is already defined", file, previous>>

\* the merge of the singleton fields of matrix i into the state of the
\* combination st = [doc, sepolicyFrom, avbFrom, error]
addSingletons(st, m, i) ==
    IF m.sepolicy # NoSepolicy /\ st.doc.sepolicy # NoSepolicy
    THEN [st EXCEPT !.error = conflictError("<sepolicy>", FileNames[i],
                                            FileNames[st.sepolicyFrom])]
    ELSE IF m.avb # NoAvb /\ st.doc.avb # NoAvb
    THEN [st EXCEPT !.error = conflictError("<avb><vbmeta-version>", FileNames[i],
                                            FileNames[st.avbFrom])]
    ELSE [st EXCEPT !.doc.sepolicy = IF m.sepolicy # NoSepolicy THEN m.sepolicy ELSE @,
                    !.sepolicyFrom = IF m.sepolicy # NoSepolicy THEN i ELSE @,
                    !.doc.avb = IF m.avb # NoAvb THEN m.avb ELSE @,
                    !.avbFrom = IF m.avb # NoAvb THEN i ELSE @]

\* the first pass of combine from position i on: the matrices of the device
\* level make the base
RECURSIVE addBases(_, _, _, _)
addBases(st, ms, i, dl) ==
    IF i > Len(ms) \/ st.error # <<>> THEN st
    ELSE IF ms[i].level # dl THEN addBases(st, ms, i + 1, dl)
         ELSE addBases(addSingletons([st EXCEPT !.doc.hals = addAllHals(@, ms[i].hals, 1)],
                                     ms[i], i),
                       ms, i + 1, dl)

\* the second pass of combine from position i on: the matrices above the
\* device level are folded into the base
RECURSIVE addHigher(_, _, _, _)
addHigher(st, ms, i, dl) ==
    IF i > Len(ms) \/ st.error # <<>> THEN st
    ELSE IF ms[i].level <= dl THEN addHigher(st, ms, i + 1, dl)
         ELSE addHigher(addSingletons([st EXCEPT !.doc.hals = addHalsFrom(@, ms[i].hals, 1)],
                                      ms[i], i),
                        ms, i + 1, dl)

\* the position of the first <kernel> of kernels that has the level of k and
\* its minLts (found), or its version x.y with another minor revision
\* (mismatch); 0 when there is none
RECURSIVE findKernel(_, _, _)
findKernel(ks, i, k) ==
    IF i > Len(ks) THEN 0
    ELSE IF ks[i].level = k.level /\ dropMinor(ks[i].minLts) = dropMinor(k.minLts)
         THEN i
         ELSE findKernel(ks, i + 1, k)

\* addKernel(MatrixKernel&&): <<the <kernel> tags afterwards, the error>>
addKernel(ks, k) ==
    LET it == findKernel(ks, 1, k) IN
    IF it = 0 THEN <<Append(ks, k), "">>
    ELSE IF ks[it].minLts # k.minLts THEN <<ks, "Kernel version mismatch">>
    ELSE IF k.conditions # <<>> THEN <<Append(ks, k), "">>
    ELSE IF ks[it].conditions = <<>>
         THEN <<[ks EXCEPT ![it].configs = @ \o k.configs], "">>
         ELSE <<ks, "ill-formed <kernel> tag">>

\* addKernel that leaves the source level of the tag as it was parsed
setSourceMatrixLevelIgnored(k, l) == k

\* the level a <kernel> tag gets when its matrix is combined: the level of the
\* matrix, unless the tag has one
setSourceMatrixLevel(k, l) == IF k.level = UNSPECIFIED THEN [k EXCEPT !.level = l] ELSE k

\* addAllKernels(other) for matrix i, from its <kernel> tag j on
RECURSIVE addAllKernels(_, _, _, _)
addAllKernels(st, m, i, j) ==
    IF j > Len(m.kernels) \/ st.error # <<>> THEN st
    ELSE LET r == addKernel(st.doc.kernels, setSourceMatrixLevel(m.kernels[j], m.level))
             from == IF findKernel(st.doc.kernels, 1,
                                   setSourceMatrixLevel(m.kernels[j], m.level)) = 0
                     THEN i
                     ELSE st.kernelFrom[findKernel(st.doc.kernels, 1,
                              setSourceMatrixLevel(m.kernels[j], m.level))]
         IN IF r[2] # ""
            THEN [st EXCEPT !.error = <<r[2], FileNames[i], FileNames[from]>>]
            ELSE addAllKernels([st EXCEPT !.doc.kernels = r[1],
                                          !.kernelFrom = IF Len(r[1]) > Len(@)
                                                         THEN Append(@, i) ELSE @],
                               m, i, j + 1)

\* the kernel threshold that ignores the level of the kernel
kernelThresholdDevice(dl, kl) == dl

\* the kernel threshold of combine
kernelThreshold(dl, kl) == Min(dl, kl)

\* the third pass of combine from position i on: the <kernel> tags of the
\* matrices at or above the smaller of the device level and the kernel level
RECURSIVE addKernels(_, _, _, _)
addKernels(st, ms, i, threshold) ==
    IF i > Len(ms) \/ st.error # <<>> THEN st
    ELSE IF ms[i].level < threshold THEN addKernels(st, ms, i + 1, threshold)
         ELSE addKernels(addAllKernels(st, ms[i], i, 1), ms, i + 1, threshold)

\* combine that hands back what it built so far when it meets a conflict
combineBestEffort(dl, kl, ms) ==
    LET st0 == [doc |-> FrameworkMatrix(dl, <<>>, <<>>, NoSepolicy, NoAvb),
                sepolicyFrom |-> 0, avbFrom |-> 0, kernelFrom |-> <<>>, error |-> <<>>]
        st == addKernels(addHigher(addBases(st0, ms, 1, dl), ms, 1, dl), ms, 1,
                         kernelThreshold(dl, kl))
    IN [doc |-> st.doc, error |-> st.error]

\* CompatibilityMatrix::combine(deviceLevel, kernelLevel, matrices, error): the
\* combined matrix, or no document and the error
combine(dl, kl, ms) ==
    LET st0 == [doc |-> FrameworkMatrix(dl, <<>>, <<>>, NoSepolicy, NoAvb),
                sepolicyFrom |-> 0, avbFrom |-> 0, kernelFrom |-> <<>>, error |-> <<>>]
        st == addKernels(addHigher(addBases(st0, ms, 1, dl), ms, 1, dl), ms, 1,
                         kernelThreshold(dl, kl))
    IN IF st.error # <<>> THEN [doc |-> NoDocument, error |-> st.error]
       ELSE [doc |-> st.doc, error |-> <<>>]

(***************************************************************************)
(* SpecCombine: a list of framework matrices is parsed and then combined   *)
(* for a device level and a kernel level.                                  *)
(***************************************************************************)
\* <config> and <conditions> lists of the <kernel> tags
ConfigA == <<<<"CONFIG_A", "y">>>>

ConfigB == <<<<"CONFIG_B", "y">>>>

ConditionArm == <<<<"CONFIG_ARM", "y">>>>

\* the <kernel> lists of a matrix whose tags have no level attribute; two
\* lists have two unconditioned tags for version 3.18, and the last two lists
\* start a version with a conditioned tag
KernelLists ==
    LET v5 == KernelVersion(3, 18, 5)
        v6 == KernelVersion(3, 18, 6)
        v4 == KernelVersion(4, 4, 0)
    IN {<<>>,
        <<MatrixKernel(v5, <<>>, ConfigA, UNSPECIFIED)>>,
        <<MatrixKernel(v5, <<>>, ConfigB, UNSPECIFIED)>>,
        <<MatrixKernel(v5, <<>>, <<>>, UNSPECIFIED),
          MatrixKernel(v5, ConditionArm, ConfigA, UNSPECIFIED)>>,
        <<MatrixKernel(v6, <<>>, ConfigA, UNSPECIFIED)>>,
        <<MatrixKernel(v5, <<>>, ConfigA, UNSPECIFIED),
          MatrixKernel(v5, <<>>, ConfigB, UNSPECIFIED)>>,
        <<MatrixKernel(v5, <<>>, ConfigA, UNSPECIFIED),
          MatrixKernel(v6, <<>>, ConfigA, UNSPECIFIED)>>,
        <<MatrixKernel(v4, <<>>, ConfigB, UNSPECIFIED)>>,
        <<MatrixKernel(v5, ConditionArm, ConfigA, UNSPECIFIED)>>,
        <<MatrixKernel(v4, <<>>, <<>>, UNSPECIFIED),
          MatrixKernel(v5, ConditionArm, <<>>, UNSPECIFIED)>>}

\* the <kernel> list with the level attribute of every tag set to l
Tagged(ks, l) == [k \in 1..Len(ks) |-> [ks[k] EXCEPT !.level = l]]

\* <sepolicy> given by its kernel-sepolicy-version, <avb> by its vbmeta-version
Sepolicies == {NoSepolicy, <<29>>, <<30>>}

Avbs == {NoAvb, <<1, 0>>, <<1, 1>>}

CombineHals ==
    {<<>>,
     <<MatrixHal("foo", <<VersionRange3(1, 0, 0)>>, FALSE, FooDefault)>>,
     <<MatrixHal("foo", <<VersionRange3(1, 0, 1)>>, TRUE,
                 [i \in {"IFoo"} |-> {"custom", "default"}])>>,
     <<MatrixHal("bar", <<VersionRange3(1, 0, 0)>>, TRUE, FooDefault),
       MatrixHal("foo", <<VersionRange3(2, 0, 0)>>, FALSE, FooDefault)>>}

\* every matrix: the lists of one matrix are drawn from these
FullDocs ==
    UNION {{FrameworkMatrix(l, hs, ks, sep, avb) :
                hs \in CombineHals,
                ks \in KernelLists \cup {Tagged(x, l) : x \in KernelLists},
                sep \in Sepolicies, avb \in Avbs} : l \in Levels}

\* the matrices of the lists of two: <kernel> tags alone, singleton fields
\* alone or HAL entries alone
PairDocs ==
    {d \in FullDocs :
        \/ d.hals = <<>> /\ d.sepolicy = NoSepolicy /\ d.avb = NoAvb
        \/ d.hals = <<>> /\ d.kernels = <<>>
        \/ d.kernels = <<>> /\ d.sepolicy = NoSepolicy /\ d.avb = NoAvb}

\* the matrices of the lists of three: one untagged <kernel> and one HAL entry
TripleDocs ==
    {d \in FullDocs :
        /\ Len(d.hals) = 1 /\ ~d.hals[1].optional
        /\ Len(d.kernels) = 1 /\ d.kernels[1].level = UNSPECIFIED
        /\ d.kernels[1].configs = ConfigA
        /\ d.sepolicy = NoSepolicy /\ d.avb = NoAvb}

CombineInputs ==
    {<<a>> : a \in FullDocs} \cup
    {<<a, b>> : a \in PairDocs, b \in PairDocs} \cup
    {<<a, b, c>> : a \in TripleDocs, b \in TripleDocs, c \in TripleDocs}

InitCombine ==
    /\ op = "init"
    /\ matrices \in CombineInputs
    /\ deviceLevel \in Levels
    /\ kernelLevel \in Levels \cup {UNSPECIFIED}
    /\ combined = NoDocument
    /\ error = <<>>
    /\ ret = FALSE
    /\ kernels = <<>>
    /\ runtime = <<>>
    /\ env = {}
    /\ vintf = <<>>
    /\ vr = VersionRange0
    /\ ver = NoVersion
    /\ str = <<>>
    /\ hal = NoHal
    /\ providedInstances = {}
    /\ providedVersions = {}
    /\ arg = NoHal
    /\ calls = 0
    /\ pre = <<>>
    /\ matrix = NoMatrix
    /\ declared = <<>>

\* the variables the combination leaves alone
otherVarsC == <<vr, ver, str, hal, providedInstances, providedVersions, arg, calls, pre,
                matrix, declared, kernels, runtime, env, vintf>>

\* fromXml(&matrices[i], xml, &error) for every matrix of the list
FromXml ==
    /\ op = "init"
    /\ op' = "fromXml"
    /\ ret' = \A i \in 1..Len(matrices) : acceptsKernels(matrices[i].kernels)
    /\ UNCHANGED <<matrices, deviceLevel, kernelLevel, combined, error>>
    /\ UNCHANGED otherVarsC

\* combine(deviceLevel, kernelLevel, &matrices, &error) on parsed matrices
Combine ==
    /\ op = "fromXml"
    /\ ret
    /\ LET r == combine(deviceLevel, kernelLevel, matrices) IN
           /\ combined' = r.doc
           /\ error' = r.error
    /\ op' = "combine"
    /\ UNCHANGED <<matrices, deviceLevel, kernelLevel, ret>>
    /\ UNCHANGED otherVarsC

(***************************************************************************)
(* assemble_vintf: the <kernel> tags of a framework matrix are built from  *)
(* the kernel config files given with --kernel.                            *)
(***************************************************************************)
gConfigPrefix == <<"a", "n", "d", "r", "o", "i", "d", "-", "b", "a", "s", "e", "-">>

gConfigSuffix == <<".", "c", "f", "g">>

gBaseConfig == <<"a", "n", "d", "r", "o", "i", "d", "-", "b", "a", "s", "e", ".", "c", "f", "g">>

\* the result of generateCondition on an error
nullptr == <<>>

\* isCommonConfig(path), for a path without directories
isCommonConfig(path) == path = gBaseConfig

\* the letters of the file names, for isalnum and toupper
LowerCase == <<"a", "m", "r">>

UpperCase == <<"A", "M", "R">>

isalnum(c) == IsDigit(c) \/ (\E x \in 1..Len(LowerCase) : c = LowerCase[x] \/ c = UpperCase[x])

toupper(c) ==
    IF \E x \in 1..Len(LowerCase) : c = LowerCase[x]
    THEN UpperCase[CHOOSE x \in 1..Len(LowerCase) : c = LowerCase[x]]
    ELSE c

\* generateCondition(path): <<key, value>> of the condition, or nullptr
generateCondition(fname) ==
    IF \/ Len(fname) <= Len(gConfigPrefix) + Len(gConfigSuffix)
       \/ SubSeq(fname, 1, Len(gConfigPrefix)) # gConfigPrefix
       \/ SubSeq(fname, Len(fname) - Len(gConfigSuffix) + 1, Len(fname)) # gConfigSuffix
    THEN nullptr
    ELSE LET sub == SubSeq(fname, Len(gConfigPrefix) + 1, Len(fname) - Len(gConfigSuffix)) IN
         IF \E x \in 1..Len(sub) : sub[x] # "-" /\ ~isalnum(sub[x])
         THEN nullptr
         ELSE <<<<"C", "O", "N", "F", "I", "G", "_">>
                    \o [x \in 1..Len(sub) |-> IF sub[x] = "-" THEN "_" ELSE toupper(sub[x])],
                "y">>

\* a kernel config file: its name, and its configs when it can be parsed
ConfigFile(fname, parses, configs) == [fname |-> fname, parses |-> parses, configs |-> configs]

\* parseFileForKernelConfigs(path, out): <<ok, out afterwards>>
parseFileForKernelConfigs(file, out) ==
    IF file.parses THEN <<TRUE, out \o file.configs>> ELSE <<FALSE, out>>

\* the loop of parseFilesForKernelConfigs from file i of the path on;
\* st = [ret, commonConfig, foundCommonConfig, out]
RECURSIVE parseFilesLoop(_, _, _)
parseFilesLoop(st, files, i) ==
    IF ~st.ret \/ i > Len(files) THEN st
    ELSE IF isCommonConfig(files[i].fname)
         THEN LET r == parseFileForKernelConfigs(files[i], st.commonConfig) IN
              parseFilesLoop([st EXCEPT !.ret = r[1], !.commonConfig = r[2],
                                        !.foundCommonConfig = TRUE],
                             files, i + 1)
         ELSE LET condition == generateCondition(files[i].fname)
                  r == parseFileForKernelConfigs(files[i], <<>>)
                  ok == condition # nullptr /\ r[1]
              IN parseFilesLoop([st EXCEPT !.ret = ok,
                                           !.out = IF ok THEN Append(@, <<condition, r[2]>>)
                                                   ELSE @],
                                files, i + 1)

\* the common configs put after the conditioned ones
appendCommonConfig(out, commonConfig) == Append(out, <<nullptr, commonConfig>>)

\* out->insert(out->begin(), std::move(commonConfig))
insertCommonConfig(out, commonConfig) == <<<<nullptr, commonConfig>>>> \o out

\* parseFilesForKernelConfigs(path, out): [ret, out]; the path is given as the
\* list of its files
parseFilesForKernelConfigs(files) ==
    LET st == parseFilesLoop([ret |-> TRUE, commonConfig |-> <<>>,
                              foundCommonConfig |-> FALSE, out |-> <<>>], files, 1)
    IN [ret |-> st.ret /\ st.foundCommonConfig,
        out |-> insertCommonConfig(st.out, st.commonConfig)]

\* the <kernel> tags made of the conditioned configs of one version
kernelsOf(v, conditionedConfigs) ==
    [x \in 1..Len(conditionedConfigs) |->
        MatrixKernel(KernelVersion(v.majorVer, v.minorVer, 0),
                     IF conditionedConfigs[x][1] # nullptr
                     THEN <<conditionedConfigs[x][1]>> ELSE <<>>,
                     conditionedConfigs[x][2], UNSPECIFIED)]

\* the loop of assembleFrameworkCompatibilityMatrixKernels over mKernels, a map
\* from Version to path given as the list of its pairs in key order, from pair
\* i on: <<ok, the <kernel> tags of the matrix>>
RECURSIVE assembleKernelsLoop(_, _, _)
assembleKernelsLoop(ks, mKernels, i) ==
    IF i > Len(mKernels) THEN <<TRUE, ks>>
    ELSE LET r == parseFilesForKernelConfigs(mKernels[i][2]) IN
         IF ~r.ret THEN <<FALSE, ks>>
         ELSE assembleKernelsLoop(ks \o kernelsOf(mKernels[i][1], r.out), mKernels, i + 1)

\* assembleFrameworkCompatibilityMatrixKernels(matrix): the hard-coded <kernel>
\* tags are removed and the tags of mKernels are added; <<ok, matrix>>
assembleFrameworkCompatibilityMatrixKernels(m, mKernels) ==
    LET r == assembleKernelsLoop(<<>>, mKernels, 1) IN
    <<r[1], [m EXCEPT !.kernels = r[2]]>>

\* the kernel config files of the --kernel options
ConfigFiles ==
    {ConfigFile(gBaseConfig, TRUE, ConfigA),
     ConfigFile(gBaseConfig, FALSE, <<>>),
     ConfigFile(gConfigPrefix \o <<"a", "r", "m">> \o gConfigSuffix, TRUE, ConfigB),
     ConfigFile(gConfigPrefix \o <<"a", "-", "6", "4">> \o gConfigSuffix, TRUE, <<>>),
     ConfigFile(gConfigPrefix \o <<"a", ".">> \o gConfigSuffix, TRUE, ConfigB),
     ConfigFile(gConfigPrefix \o gConfigSuffix, TRUE, ConfigB),
     ConfigFile(<<"b", "a", "s", "e">> \o gConfigSuffix, TRUE, ConfigB)}

\* the paths of one --kernel option: up to two files, or the common configs
\* between two conditioned ones
ConfigPaths ==
    {<<>>} \cup {<<f>> : f \in ConfigFiles} \cup {<<f, g>> : f \in ConfigFiles, g \in ConfigFiles}
    \cup {<<f, ConfigFile(gBaseConfig, TRUE, ConfigA), g>> :
             f \in {c \in ConfigFiles : generateCondition(c.fname) # nullptr /\ c.parses},
             g \in {c \in ConfigFiles : generateCondition(c.fname) # nullptr /\ c.parses}}

\* the values of mKernels: no --kernel option, one for 3.18, or one for 3.18
\* and one for 4.4 with one or two files each
KernelArgs ==
    {<<>>} \cup {<<<<Version(3, 18), p>>>> : p \in ConfigPaths}
    \cup {<<<<Version(3, 18), p>>, <<Version(4, 4), q>>>> :
             p \in {x \in ConfigPaths : Len(x) = 2 /\ x[2].parses /\ x[2].configs # <<>>},
             q \in {x \in ConfigPaths : Len(x) = 1}}

\* assemble_vintf on one framework matrix, its level being the device level,
\* with the --kernel options that give mKernels
AssembleKernels ==
    /\ op = "fromXml"
    /\ ret
    /\ Len(matrices) = 1
    /\ deviceLevel = matrices[1].level
    /\ kernelLevel = UNSPECIFIED
    /\ \E mKernels \in KernelArgs :
           LET r == assembleFrameworkCompatibilityMatrixKernels(matrices[1], mKernels) IN
               /\ kernels' = mKernels
               /\ ret' = r[1]
               /\ combined' = IF r[1] THEN r[2] ELSE NoDocument
    /\ op' = "assembleKernels"
    /\ UNCHANGED <<matrices, deviceLevel, kernelLevel, error>>
    /\ UNCHANGED <<vr, ver, str, hal, providedInstances, providedVersions, arg, calls, pre,
                   matrix, declared, runtime, env, vintf>>

NextCombine == FromXml \/ Combine \/ AssembleKernels

SpecCombine == InitCombine /\ [][NextCombine]_vars

(***************************************************************************)
(* Conflicts of the combination: claims C12 and C13.                       *)
(***************************************************************************)
\* the matrices of the list that are combined for the HAL entries and the
\* singleton fields, and for the <kernel> tags
CombinedDocs == {i \in 1..Len(matrices) : matrices[i].level >= deviceLevel}

KernelDocs == {i \in 1..Len(matrices) : matrices[i].level >= Min(deviceLevel, kernelLevel)}

\* two combined matrices define <sepolicy>, or <avb>
SepolicyTwice ==
    \E i \in CombinedDocs : \E j \in CombinedDocs :
        i # j /\ matrices[i].sepolicy # NoSepolicy /\ matrices[j].sepolicy # NoSepolicy

AvbTwice ==
    \E i \in CombinedDocs : \E j \in CombinedDocs :
        i # j /\ matrices[i].avb # NoAvb /\ matrices[j].avb # NoAvb

\* two <kernel> tags of one level for one version x.y differ in the minor
\* revision
KernelMismatch ==
    \E i \in KernelDocs : \E j \in KernelDocs :
        /\ matrices[i].level = matrices[j].level
        /\ \E a \in 1..Len(matrices[i].kernels) : \E b \in 1..Len(matrices[j].kernels) :
               /\ dropMinor(matrices[i].kernels[a].minLts)
                      = dropMinor(matrices[j].kernels[b].minLts)
               /\ matrices[i].kernels[a].minLts # matrices[j].kernels[b].minLts

\* C12: a combination that meets a conflict (a second <sepolicy>, a second
\* <avb>, a kernel version mismatch) returns no document and a non-empty
\* error; a combination returns a document or an error, never both.
C12_ConflictReturnsNoDocument ==
    op = "combine" =>
        /\ (SepolicyTwice \/ AvbTwice \/ KernelMismatch)
               => (combined = NoDocument /\ error # <<>>)
        /\ error # <<>> => combined = NoDocument
        /\ error = <<>> => combined # NoDocument

\* C12 witness: the second matrix of the device level defines <sepolicy>
\* again, and nothing is returned but the error.
C12_Witness ==
    /\ op = "combine"
    /\ Len(matrices) = 2
    /\ matrices[1].level = deviceLevel
    /\ matrices[2].level = deviceLevel
    /\ matrices[1].sepolicy = <<30>>
    /\ matrices[2].sepolicy = <<29>>
    /\ combined = NoDocument
    /\ error # <<>>

SingleAtOwnLevel ==
    /\ op = "combine"
    /\ Len(matrices) = 1
    /\ deviceLevel = matrices[1].level

\* the <kernel> tags of one version x.y: one minor revision, and one tag
\* without conditions
OneBaseline(ks) ==
    \A a \in 1..Len(ks) : \A b \in 1..Len(ks) :
        (a # b /\ dropMinor(ks[a].minLts) = dropMinor(ks[b].minLts)) =>
            /\ ks[a].minLts = ks[b].minLts
            /\ ks[a].conditions # <<>> \/ ks[b].conditions # <<>>

Range(s) == {s[x] : x \in 1..Len(s)}

\* <kernel> tag k of combined matrix c comes from <kernel> tag s of a matrix
\* of level l: tagged with l, for the same minLts under the same conditions
FromSource(k, s, l) ==
    /\ k.level = l
    /\ k.minLts = s.minLts
    /\ k.conditions = s.conditions

\* C17: after a successful combination, every <kernel> tag of every matrix
\* whose level is at least min(deviceLevel, kernelLevel) is retained in the
\* combined matrix, tagged with the level of its matrix, and every <kernel>
\* tag and every <config> of the combined matrix comes from such a matrix; no
\* <kernel> tag of a matrix below that level is in the combined matrix.
C17_KernelsOfLevelsAtOrAboveThreshold ==
    (op = "combine" /\ error = <<>>) =>
        /\ \A i \in KernelDocs : \A s \in Range(matrices[i].kernels) :
               \E k \in Range(combined.kernels) :
                   /\ FromSource(k, s, matrices[i].level)
                   /\ Range(s.configs) \subseteq Range(k.configs)
        /\ \A k \in Range(combined.kernels) :
               /\ k.level >= Min(deviceLevel, kernelLevel)
               /\ \E i \in KernelDocs : \E s \in Range(matrices[i].kernels) :
                      FromSource(k, s, matrices[i].level)
               /\ \A c \in Range(k.configs) :
                      \E i \in KernelDocs : \E s \in Range(matrices[i].kernels) :
                          FromSource(k, s, matrices[i].level) /\ c \in Range(s.configs)

\* C17 witness: matrices of levels 1, 2 and 3 with one <kernel> each are
\* combined for device level 3 and kernel level 2; the <kernel> tags of levels
\* 2 and 3 are retained with their levels and the one of level 1 is dropped.
C17_Witness ==
    /\ op = "combine"
    /\ error = <<>>
    /\ Len(matrices) = 3
    /\ \A i \in 1..3 : matrices[i].level = i /\ matrices[i].kernels[1].level = UNSPECIFIED
    /\ deviceLevel = 3
    /\ kernelLevel = 2
    /\ {k.level : k \in Range(combined.kernels)} = {2, 3}

(***************************************************************************)
(* The first <kernel> of each version: claim C18.                          *)
(***************************************************************************)
\* the first <kernel> tag of ks for each kernel version x.y has no conditions
FirstOfVersionUnconditioned(ks) ==
    \A k \in 1..Len(ks) :
        ks[k].conditions # <<>> =>
            \E j \in 1..(k - 1) :
                /\ ks[j].minLts.version = ks[k].minLts.version
                /\ ks[j].minLts.majorRev = ks[k].minLts.majorRev
                /\ \A x \in 1..(j - 1) :
                       \/ ks[x].minLts.version # ks[k].minLts.version
                       \/ ks[x].minLts.majorRev # ks[k].minLts.majorRev
                /\ ks[j].conditions = <<>>

\* among the <kernel> tags of ks of one minLts and one level, there is one
\* without conditions and it comes before the ones with conditions
UnconditionedBeforeConditioned(ks) ==
    \A k \in 1..Len(ks) :
        ks[k].conditions # <<>> =>
            \E j \in 1..(k - 1) :
                /\ ks[j].minLts = ks[k].minLts
                /\ ks[j].level = ks[k].level
                /\ ks[j].conditions = <<>>

\* C18: a matrix is accepted when it is parsed exactly when the first
\* <kernel> of each version has empty <conditions>; in every matrix produced by
\* a combination or by the assembly of the <kernel> tags from config files,
\* the first <kernel> of each version has empty <conditions>, and a
\* combination puts the unconditioned <kernel> of a version and level before
\* the conditioned ones.
C18_FirstKernelOfVersionUnconditioned ==
    /\ op = "fromXml" =>
           (ret <=> \A i \in 1..Len(matrices) :
                        FirstOfVersionUnconditioned(matrices[i].kernels))
    /\ (op = "combine" /\ error = <<>>) =>
           /\ FirstOfVersionUnconditioned(combined.kernels)
           /\ UnconditionedBeforeConditioned(combined.kernels)
    /\ (op = "assembleKernels" /\ ret) => FirstOfVersionUnconditioned(combined.kernels)

\* C18 witness (construction): a matrix whose first <kernel> for 3.18 has
\* conditions, after a <kernel> for 4.4, has been rejected.
C18_WitnessRejected ==
    /\ op = "fromXml"
    /\ ~ret
    /\ Len(matrices) = 1
    /\ Len(matrices[1].kernels) = 2
    /\ matrices[1].kernels[1].conditions = <<>>
    /\ matrices[1].kernels[2].conditions # <<>>

\* C18 witness (combination): the matrix with the conditioned <kernel> comes
\* first in the list, the unconditioned <kernel> of the second matrix is merged
\* in front of it.
C18_WitnessCombined ==
    /\ op = "combine"
    /\ error = <<>>
    /\ Len(matrices) = 2
    /\ Len(matrices[1].kernels) = 2
    /\ matrices[1].kernels[2].conditions # <<>>
    /\ Len(matrices[2].kernels) = 1
    /\ matrices[2].kernels[1].configs = ConfigB
    /\ Len(combined.kernels) = 2
    /\ combined.kernels[1].conditions = <<>>
    /\ combined.kernels[1].configs = ConfigB
    /\ combined.kernels[2].conditions # <<>>

\* C18 witness (assembly): the conditioned config file comes before the common
\* one in the path, and the <kernel> of the common configs is first.
C18_WitnessAssembled ==
    /\ op = "assembleKernels"
    /\ ret
    /\ Len(kernels) = 1
    /\ Len(kernels[1][2]) = 2
    /\ ~isCommonConfig(kernels[1][2][1].fname)
    /\ isCommonConfig(kernels[1][2][2].fname)
    /\ Len(combined.kernels) = 2
    /\ combined.kernels[1].conditions = <<>>
    /\ combined.kernels[2].conditions = <<<<<<"C", "O", "N", "F", "I", "G", "_", "A", "R", "M">>, "y">>>>

(***************************************************************************)
(* SpecKernel: RuntimeInfo::checkCompatibility on the <kernel> tags of a   *)
(* framework matrix.                                                       *)
(***************************************************************************)
\* KernelConfigTypedValue: a tristate or an integer
Tristate(t) == [type |-> "tristate", text |-> t, int |-> 0]

Integer(n) == [type |-> "int", text |-> "", int |-> n]

\* a config of the running kernel that is not set
NotSet == [type |-> "none", text |-> "", int |-> 0]

\* KernelConfigTypedValue::matchValue: the value of the running kernel is of
\* the type of the required value and equal to it
matchValue(required, value) == value # NotSet /\ value = required

\* the match of each <config> of a <kernel>: a key that is not set matches
\* the tristate n alone
matchKernelConfigs(configs, required) ==
    \A x \in 1..Len(required) :
        IF configs[required[x][1]] = NotSet
        THEN required[x][2] = Tristate("n")
        ELSE matchValue(required[x][2], configs[required[x][1]])

\* conditions that are met as soon as one of them is
conditionsMetAny(configs, conditions) ==
    \E x \in 1..Len(conditions) : matchValue(conditions[x][2], configs[conditions[x][1]])

\* the <conditions> of a <kernel>: every key is set in the running kernel to
\* an equal typed value
conditionsMet(configs, conditions) ==
    \A x \in 1..Len(conditions) : matchValue(conditions[x][2], configs[conditions[x][1]])

\* the kernel version match that ignores the minor revision
matchKernelVersionAnyMinor(version, minLts) ==
    version.version = minLts.version /\ version.majorRev = minLts.majorRev

\* KernelInfo::matchKernelVersion
matchKernelVersion(version, minLts) ==
    /\ version.version = minLts.version
    /\ version.majorRev = minLts.majorRev
    /\ version.minorRev >= minLts.minorRev

\* the kernel check of RuntimeInfo::checkCompatibility: a <kernel> matches the
\* version, and every <kernel> that matches the version and whose conditions
\* are met has all its configs matched
checkKernel(info, ks) ==
    /\ \E k \in 1..Len(ks) : matchKernelVersion(info.version, ks[k].minLts)
    /\ \A k \in 1..Len(ks) :
           (/\ matchKernelVersion(info.version, ks[k].minLts)
            /\ conditionsMet(info.configs, ks[k].conditions))
               => matchKernelConfigs(info.configs, ks[k].configs)

\* the running kernels: testKernelInfo with other versions and other configs
RuntimeInfos ==
    {[version |-> v, configs |-> c] :
        v \in {KernelVersion(3, 18, 31), KernelVersion(3, 18, 22), KernelVersion(4, 4, 0)},
        c \in {f \in [{"CONFIG_64BIT", "CONFIG_ARCH_MMAP_RND_BITS"} -> {NotSet, Tristate("y"), Tristate("n"),
                     Integer(24), Integer(26)}] :
                 f["CONFIG_64BIT"] # Integer(26) /\ f["CONFIG_ARCH_MMAP_RND_BITS"] # Tristate("n")}}

RuntimeConditions ==
    {<<>>,
     <<<<"CONFIG_64BIT", Tristate("y")>>>>,
     <<<<"CONFIG_64BIT", Tristate("n")>>>>,
     <<<<"CONFIG_ARCH_MMAP_RND_BITS", Integer(24)>>>>,
     <<<<"CONFIG_64BIT", Tristate("y")>>, <<"CONFIG_ARCH_MMAP_RND_BITS", Integer(24)>>>>}

RuntimeConfigs ==
    {<<>>,
     <<<<"CONFIG_ARCH_MMAP_RND_BITS", Integer(24)>>>>,
     <<<<"CONFIG_ARCH_MMAP_RND_BITS", Integer(26)>>>>,
     <<<<"CONFIG_64BIT", Tristate("n")>>>>,
     <<<<"CONFIG_64BIT", Tristate("y")>>>>}

RuntimeKernels ==
    {MatrixKernel(v, cond, cfg, UNSPECIFIED) :
        v \in {KernelVersion(3, 18, 22), KernelVersion(3, 18, 60), KernelVersion(4, 4, 1)},
        cond \in RuntimeConditions, cfg \in RuntimeConfigs}

\* the <kernel> lists of the matrices that are parsed: one or two tags, or an
\* empty <kernel> for 3.18.22 and two conditioned ones
RuntimeKernelLists ==
    {ks \in {<<a>> : a \in RuntimeKernels} \cup {<<a, b>> : a \in RuntimeKernels, b \in RuntimeKernels}
        : acceptsKernels(ks)}
    \cup {<<MatrixKernel(KernelVersion(3, 18, 22), <<>>, <<>>, UNSPECIFIED), a, b>> :
             a \in {k \in RuntimeKernels : k.minLts.minorRev = 22 /\ k.conditions # <<>>},
             b \in {k \in RuntimeKernels : k.minLts.minorRev = 22 /\ k.conditions # <<>>}}

InitKernel ==
    /\ op = "init"
    /\ runtime \in RuntimeInfos
    /\ kernels \in RuntimeKernelLists
    /\ env = {}
    /\ vintf = <<>>
    /\ ret = FALSE
    /\ matrices = <<>>
    /\ deviceLevel = 0
    /\ kernelLevel = 0
    /\ combined = <<>>
    /\ error = ""
    /\ vr = VersionRange0
    /\ ver = NoVersion
    /\ str = <<>>
    /\ hal = NoHal
    /\ providedInstances = {}
    /\ providedVersions = {}
    /\ arg = NoHal
    /\ calls = 0
    /\ pre = <<>>
    /\ matrix = NoMatrix
    /\ declared = <<>>

\* runtime.checkCompatibility(cm, &error), the kernel part
CheckCompatibility ==
    /\ op = "init"
    /\ op' = "checkCompatibility"
    /\ ret' = checkKernel(runtime, kernels)
    /\ UNCHANGED <<vr, ver, str, hal, providedInstances, providedVersions, arg, calls, pre,
                   matrix, declared>>
    /\ UNCHANGED combineVars

SpecKernel == InitKernel /\ [][CheckCompatibility]_vars

(***************************************************************************)
(* Conditions of a <kernel>: claim C19.                                    *)
(***************************************************************************)
\* <kernel> tag k is for the version of the running kernel
ForRunningVersion(k) ==
    /\ runtime.version.version = kernels[k].minLts.version
    /\ runtime.version.majorRev = kernels[k].minLts.majorRev
    /\ runtime.version.minorRev >= kernels[k].minLts.minorRev

\* every condition of <kernel> tag k is present in the configs of the running
\* kernel with an equal typed value
OwnConditionsPresent(k) ==
    \A c \in Range(kernels[k].conditions) :
        runtime.configs[c[1]] # NotSet /\ runtime.configs[c[1]] = c[2]

\* the running kernel has every config of <kernel> tag k (a required n is
\* also matched by a key that is not set)
ConfigsSatisfied(k) ==
    \A c \in Range(kernels[k].configs) :
        \/ runtime.configs[c[1]] = c[2]
        \/ runtime.configs[c[1]] = NotSet /\ c[2] = Tristate("n")

\* the <kernel> list without tag k
Without(ks, k) == SubSeq(ks, 1, k - 1) \o SubSeq(ks, k + 1, Len(ks))

\* C19: the configs of a <kernel> are enforced exactly when all of its own
\* conditions are present in the configs of the running kernel with an equal
\* typed value: the check passes exactly when every <kernel> for the running
\* version whose own conditions are present has its configs satisfied; a
\* <kernel> with an unmet condition can be taken out of the matrix without
\* changing the result, and the result is that of the <kernel> tags for the
\* running version checked one at a time.
C19_ConfigsEnforcedIffOwnConditionsMet ==
    op = "checkCompatibility" =>
        /\ ret <=> /\ \E k \in 1..Len(kernels) : ForRunningVersion(k)
                   /\ \A k \in 1..Len(kernels) :
                          (ForRunningVersion(k) /\ OwnConditionsPresent(k))
                              => ConfigsSatisfied(k)
        /\ \A k \in 1..Len(kernels) :
               (~OwnConditionsPresent(k) /\ \E j \in 1..Len(kernels) : j # k /\ ForRunningVersion(j))
                   => ret = checkKernel(runtime, Without(kernels, k))
        /\ (\E k \in 1..Len(kernels) : ForRunningVersion(k)) =>
               (ret <=> \A k \in 1..Len(kernels) :
                            ForRunningVersion(k) => checkKernel(runtime, <<kernels[k]>>))

\* C19 witness: the spec's scenario: CONFIG_64BIT is n in the running kernel,
\* the <kernel> with the condition CONFIG_64BIT = y requires a value of
\* CONFIG_ARCH_MMAP_RND_BITS the running kernel does not have, and the check
\* passes; the third <kernel>, whose condition is met, is satisfied.
C19_Witness ==
    /\ op = "checkCompatibility"
    /\ ret
    /\ runtime.configs["CONFIG_64BIT"] = Tristate("n")
    /\ runtime.configs["CONFIG_ARCH_MMAP_RND_BITS"] = Integer(26)
    /\ Len(kernels) = 3
    /\ \A k \in 1..3 : ForRunningVersion(k)
    /\ kernels[2].conditions = <<<<"CONFIG_64BIT", Tristate("y")>>>>
    /\ kernels[2].configs = <<<<"CONFIG_ARCH_MMAP_RND_BITS", Integer(24)>>>>
    /\ kernels[3].conditions = <<<<"CONFIG_64BIT", Tristate("n")>>>>
    /\ kernels[3].configs = <<<<"CONFIG_ARCH_MMAP_RND_BITS", Integer(26)>>>>

(***************************************************************************)
(* The version of a <kernel>: claim C20.                                   *)
(***************************************************************************)
\* the <kernel> tags of the matrix for version x.y of the running kernel with
\* a minor revision that is not above the running one
TagsForRunningVersion == SelectSeq(kernels, LAMBDA e :
    /\ runtime.version.version = e.minLts.version
    /\ runtime.version.majorRev = e.minLts.majorRev
    /\ runtime.version.minorRev >= e.minLts.minorRev)

\* C20: a running kernel x.y.z is checked against the <kernel> tags a.b.c with
\* x = a, y = b and z >= c and against no other: the result is the one for
\* those tags alone, an unconditioned one of them whose configs are not
\* satisfied fails the check, and when there is none of them the check fails.
C20_CheckedAgainstMatchingVersion ==
    op = "checkCompatibility" =>
        /\ TagsForRunningVersion = <<>> => ~ret
        /\ ret = checkKernel(runtime, TagsForRunningVersion)
        /\ \A k \in 1..Len(kernels) :
               (ForRunningVersion(k) /\ kernels[k].conditions = <<>> /\ ~ConfigsSatisfied(k))
                   => ~ret

\* C20 witness: the running kernel 3.18.31 passes the check against a matrix
\* with a <kernel> for 3.18.22 it satisfies and a <kernel> for 3.18.60 whose
\* configs it does not have.
C20_Witness ==
    /\ op = "checkCompatibility"
    /\ ret
    /\ runtime.version = KernelVersion(3, 18, 31)
    /\ Len(kernels) = 2
    /\ kernels[1].minLts = KernelVersion(3, 18, 22)
    /\ kernels[1].configs # <<>>
    /\ kernels[2].minLts = KernelVersion(3, 18, 60)
    /\ kernels[2].conditions = <<>>
    /\ ~ConfigsSatisfied(2)

(***************************************************************************)
(* SpecRelations: a VersionRange is compared with another one by overlaps, *)
(* a MatrixHal with another one by containsInstances.                      *)
(***************************************************************************)
\* the entries whose interfaces are compared
InstanceHals ==
    {MatrixHal("foo", <<VersionRange3(1, 0, 0)>>, FALSE, m) :
        m \in InterfaceMaps({"IBar", "IFoo"}, {"custom", "default"})}

RangesV == {VersionRange3(mj, miM, mxM) : mj \in MajorsV, miM \in MinorsV, mxM \in MinorsV}

InitRelations ==
    /\ op = "init"
    /\ \/ vr \in RangesV /\ hal = NoHal
       \/ vr = VersionRange0 /\ hal \in InstanceHals
    /\ ver = NoVersion
    /\ str = <<>>
    /\ ret = FALSE
    /\ providedInstances = {}
    /\ providedVersions = {}
    /\ arg = NoHal
    /\ calls = 0
    /\ pre = <<>>
    /\ matrix = NoMatrix
    /\ declared = <<>>
    /\ CombineIdle

\* vr.overlaps(other); pre holds other
Overlaps ==
    /\ op = "init"
    /\ \E other \in RangesV :
           /\ pre' = <<other>>
           /\ ret' = overlaps(vr, other)
    /\ op' = "overlaps"
    /\ UNCHANGED <<vr, ver, str, hal, providedInstances, providedVersions, arg, calls,
                   matrix, declared>>
    /\ UNCHANGED combineVars

\* hal.containsInstances(other); arg holds other
ContainsInstances ==
    /\ op = "init"
    /\ \E other \in InstanceHals :
           /\ arg' = other
           /\ ret' = containsInstances(hal, other)
    /\ op' = "containsInstances"
    /\ UNCHANGED <<vr, ver, str, hal, providedInstances, providedVersions, pre, calls,
                   matrix, declared>>
    /\ UNCHANGED combineVars

NextRelations == Overlaps \/ ContainsInstances

SpecRelations == InitRelations /\ [][NextRelations]_vars

(***************************************************************************)
(* Claims C24, C25 and C26.                                                *)
(***************************************************************************)
\* C24: A.containsInstances(B) holds if and only if, for every interface B
\* declares, the instances A declares for it (none when A does not declare the
\* interface) include the instances B declares for it.
C24_ContainsInstancesIsSuperset ==
    op = "containsInstances" =>
        (ret <=> \A i \in DOMAIN arg.interfaces :
                     arg.interfaces[i] \subseteq
                         (IF i \in DOMAIN hal.interfaces THEN hal.interfaces[i] ELSE {}))

\* C25: a.overlaps(b) = b.overlaps(a); ranges of different majors do not
\* overlap, and ranges of one major overlap exactly when some minor lies in
\* both closed intervals [minMinor, maxMinor].
C25_OverlapsSymmetricIntervalsIntersect ==
    op = "overlaps" =>
        /\ ret = overlaps(pre[1], vr)
        /\ vr.majorVer # pre[1].majorVer => ~ret
        /\ vr.majorVer = pre[1].majorVer =>
               (ret <=> \E mi \in MinorsV :
                            /\ vr.minMinor <= mi /\ mi <= vr.maxMinor
                            /\ pre[1].minMinor <= mi /\ mi <= pre[1].maxMinor)

\* C26: r.contains(v) holds if and only if v has the major of r and a minor
\* from minMinor to maxMinor; a version of another major is never contained.
C26_ContainsSameMajorMinorInside ==
    op = "contains" =>
        /\ ret <=> /\ ver.majorVer = vr.majorVer
                   /\ vr.minMinor <= ver.minorVer
                   /\ ver.minorVer <= vr.maxMinor
        /\ ver.majorVer # vr.majorVer => ~ret

\* C26 witness: 1.3 is not contained in 2.3-7 although its minor is inside.
C26_Witness ==
    /\ op = "contains"
    /\ vr = VersionRange3(2, 3, 7)
    /\ ver = Version(1, 3)
    /\ ~ret

to_string(n) == Digits[n + 1]

\* bool isSingleVersion() const
isSingleVersion(r) == r.minMinor = r.maxMinor

\* operator<<(os, const VersionRange&): 1.2 for a single version, else 1.2-3
rangeToString(r) ==
    IF isSingleVersion(r)
    THEN to_string(r.majorVer) \o "." \o to_string(r.minMinor)
    ELSE to_string(r.majorVer) \o "." \o to_string(r.minMinor) \o "-" \o to_string(r.maxMinor)

\* toFQNameString(package, version, interface, instance)
toFQNameString(package, version, interface, instance) ==
    package \o "@" \o version
        \o (IF interface # "" THEN "::" \o interface ELSE "")
        \o (IF instance # "" THEN "/" \o instance ELSE "")

\* the lambda expandInstances(req, vr, brace) hands to forEachInstance(vr, func),
\* run over the pairs from position i on; acc = [s, count]
RECURSIVE expandLoop(_, _, _, _, _)
expandLoop(req, r, pairs, i, acc) ==
    IF i > Len(pairs) THEN acc
    ELSE IF setTo(req.name, pairs[i][1], pairs[i][2])
         THEN expandLoop(req, r, pairs, i + 1,
                         [s |-> acc.s \o (IF acc.count > 0 THEN " AND " ELSE "")
                                      \o toFQNameString("", rangeToString(r),
                                                        pairs[i][1], pairs[i][2]),
                          count |-> acc.count + 1])
         ELSE expandLoop(req, r, pairs, i + 1, acc)

\* expandInstances(req, vr, brace) that braces whenever brace is set
expandInstancesVrAlwaysBrace(req, r, brace) ==
    LET finish(acc) ==
            IF brace THEN "(" \o acc.s \o ")" ELSE acc.s
    IN finish(expandLoop(req, r, InstancePairs(req), 1, [s |-> "", count |-> 0]))

\* std::string expandInstances(const MatrixHal& req, const VersionRange& vr, bool brace)
\* for a HIDL or native requirement
expandInstancesVr(req, r, brace) ==
    LET finish(acc) ==
            IF acc.count = 0 THEN "@" \o rangeToString(r)
            ELSE IF acc.count >= 2 /\ brace THEN "(" \o acc.s \o ")"
            ELSE acc.s
    IN finish(expandLoop(req, r, InstancePairs(req), 1, [s |-> "", count |-> 0]))

\* size_t MatrixHal::instancesCount(): the matrix instances forEachInstance(func)
\* visits, every declared pair once for every version range
instancesCount(req) ==
    LET visited(pairs) ==
            Cardinality({k \in 1..Len(pairs) : setTo(req.name, pairs[k][1], pairs[k][2])})
    IN Len(req.versionRanges) * visited(InstancePairs(req))

\* the loop of expandInstances(req) over the version ranges from position k on
RECURSIVE expandRanges(_, _, _)
expandRanges(req, k, ss) ==
    IF k > Len(req.versionRanges) THEN ss
    ELSE LET marked == IF ss # <<>> THEN [ss EXCEPT ![Len(ss)] = @ \o " OR"] ELSE ss
         IN expandRanges(req, k + 1,
                         Append(marked, expandInstancesVr(req, req.versionRanges[k], TRUE)))

\* std::vector<std::string> expandInstances(const MatrixHal& req)
expandInstances(req) ==
    LET expand(count) ==
            IF count = 0 THEN <<>>
            ELSE IF count = 1 THEN <<expandInstancesVr(req, req.versionRanges[1], FALSE)>>
            ELSE expandRanges(req, 1, <<>>)
    IN expand(instancesCount(req))

\* the parser filling the interfaces of a <hal>: interfaces[intf] gains inst
insertInstance(h, intf, inst) ==
    [h EXCEPT !.interfaces =
        [d \in DOMAIN h.interfaces \cup {intf} |->
            IF d = intf THEN InstancesOf(h, intf) \cup {inst} ELSE h.interfaces[d]]]

\* the requirement left by the insertions pairs[i], pairs[i + 1], ... into h
RECURSIVE insertInstances(_, _, _)
insertInstances(h, pairs, i) ==
    IF i > Len(pairs) THEN h
    ELSE insertInstances(insertInstance(h, pairs[i][1], pairs[i][2]), pairs, i + 1)

\* the instances of a manifest in the order they are listed in
ProvidedOrder ==
    <<FqInstance(Version(1, 0), "IFoo", "default"),
      FqInstance(Version(1, 2), "IFoo", "default"),
      FqInstance(Version(1, 3), "IBar", "default")>>

\* the strings of ss with sep between them
RECURSIVE Join(_, _)
Join(ss, sep) ==
    IF Len(ss) = 0 THEN ""
    ELSE IF Len(ss) = 1 THEN ss[1]
    ELSE ss[1] \o sep \o Join(Tail(ss), sep)

\* the lines that describe an unmet requirement: the HAL, what it requires
\* and what the manifest provides for it
describeUnmet(h, provided) ==
    LET required(ss) ==
            IF Len(ss) = 1 THEN <<"    required: " \o ss[1]>>
            ELSE <<"    required: ">> \o [k \in 1..Len(ss) |-> "        " \o ss[k]]
        names(ps) ==
            [k \in 1..Len(ps) |->
                toFQNameString("", to_string(ps[k].version.majorVer) \o "."
                                       \o to_string(ps[k].version.minorVer),
                               ps[k].interface, ps[k].instance)]
    IN <<h.name \o ":">> \o required(expandInstances(h))
           \o <<"    provided: " \o Join(names(Sorted(provided, ProvidedOrder)), ", ")>>

\* checkIncompatibleHals that describes the optional entries as well
RECURSIVE checkIncompatibleHalsAll(_, _, _)
checkIncompatibleHalsAll(hals, pFoo, k) ==
    IF k > Len(hals) THEN <<>>
    ELSE LET check(provided) ==
                 IF isCompatible(hals[k], provided, {p.version : p \in provided}) THEN <<>>
                 ELSE describeUnmet(hals[k], provided)
         IN check(OfPackage(hals[k].name, pFoo)) \o checkIncompatibleHalsAll(hals, pFoo, k + 1)

\* HalManifest::checkIncompatibleHals(mat): an optional entry is skipped, a
\* required entry the manifest is not compatible with is described
RECURSIVE checkIncompatibleHals(_, _, _)
checkIncompatibleHals(hals, pFoo, k) ==
    IF k > Len(hals) THEN <<>>
    ELSE LET check(provided) ==
                 IF hals[k].optional THEN <<>>
                 ELSE IF isCompatible(hals[k], provided, {p.version : p \in provided})
                 THEN <<>>
                 ELSE describeUnmet(hals[k], provided)
         IN check(OfPackage(hals[k].name, pFoo)) \o checkIncompatibleHals(hals, pFoo, k + 1)

\* checkCompatibility that returns the description of every entry the manifest
\* does not satisfy, the optional ones included
checkCompatibilityDescribesAll(hals, pFoo) ==
    [ok |-> checkIncompatibleHals(hals, pFoo, 1) = <<>>,
     error |-> checkIncompatibleHalsAll(hals, pFoo, 1)]

\* HalManifest::checkCompatibility(mat, &error), the HAL part: the result and
\* the error, which is empty on success
checkCompatibility(hals, pFoo) ==
    LET result(unmet) ==
            IF unmet = <<>> THEN [ok |-> TRUE, error |-> <<>>]
            ELSE [ok |-> FALSE,
                  error |-> <<"HALs incompatible. The following requirements are not met:">>
                                \o unmet]
    IN result(checkIncompatibleHals(hals, pFoo, 1))

\* the end of assembleCompatibilityMatrix without the check of the manifest
checkAssembledNever(r, flags, pFoo) == [ok |-> r.ok, matrix |-> r.matrix, error |-> <<>>]

\* the end of assembleCompatibilityMatrix: the assembled matrix r.matrix is
\* written, then checked against the check manifest when
\* PRODUCT_ENFORCE_VINTF_MANIFEST is set
checkAssembled(r, flags, pFoo) ==
    IF ~r.ok THEN [ok |-> FALSE, matrix |-> r.matrix, error |-> <<>>]
    ELSE LET enforce(c) ==
                 IF "PRODUCT_ENFORCE_VINTF_MANIFEST" \in flags /\ ~c.ok
                 THEN [ok |-> FALSE, matrix |-> r.matrix, error |-> c.error]
                 ELSE [ok |-> TRUE, matrix |-> r.matrix, error |-> <<>>]
         IN enforce(checkCompatibility(r.matrix.hals, pFoo))

(***************************************************************************)
(* SpecCheck: a requirement built by a sequence of insertions is rendered, *)
(* checked against the instances a manifest provides, and checked at the   *)
(* end of an assembly run.                                                 *)
(***************************************************************************)
\* the version lists of the requirement
CheckRanges ==
    {<<VersionRange3(1, 2, 3)>>, <<VersionRange2(4, 5)>>,
     <<VersionRange3(1, 2, 3), VersionRange2(4, 5)>>,
     <<VersionRange2(4, 5), VersionRange3(1, 2, 3)>>}

\* the (interface, instance) pairs inserted, in the order of their insertion:
\* up to two insertions of any pair, and the three pairs of one requirement in
\* every order
CheckInsertions ==
    {<<>>} \cup {<<a>> : a \in {"IBar", "IFoo"} \X {"custom", "default"}}
           \cup {<<a, b>> : a \in {"IBar", "IFoo"} \X {"custom", "default"},
                            b \in {"IBar", "IFoo"} \X {"custom", "default"}}
           \cup {s \in [1..3 -> {<<"IBar", "default">>, <<"IFoo", "custom">>,
                                  <<"IFoo", "default">>}] :
                     s[1] # s[2] /\ s[1] # s[3] /\ s[2] # s[3]}

InitCheck ==
    /\ op = "init"
    /\ pre \in CheckInsertions
    /\ \E ranges \in CheckRanges : \E o \in BOOLEAN :
           hal = insertInstances(MatrixHal("foo", ranges, o, NoInterfaces), pre, 1)
    /\ providedInstances \in SUBSET {ProvidedOrder[k] : k \in 1..Len(ProvidedOrder)}
    /\ providedVersions = {p.version : p \in providedInstances}
    /\ env \in SUBSET {"PRODUCT_ENFORCE_VINTF_MANIFEST"}
    /\ deviceLevel = 1
    /\ matrices = <<CompatibilityMatrix(1, <<hal>>)>>
    /\ kernelLevel = 0
    /\ combined = NoMatrix
    /\ error = <<>>
    /\ kernels = <<>>
    /\ runtime = <<>>
    /\ vintf = <<>>
    /\ ret = FALSE
    /\ vr = VersionRange0
    /\ ver = NoVersion
    /\ str = <<>>
    /\ arg = NoHal
    /\ calls = 0
    /\ matrix = NoMatrix
    /\ declared = <<>>

\* expandInstances(hal); str holds the strings returned
ExpandInstances ==
    /\ op = "init"
    /\ str' = expandInstances(hal)
    /\ op' = "expandInstances"
    /\ UNCHANGED <<vr, ver, hal, providedInstances, providedVersions, arg, calls, pre,
                   matrix, declared, ret>>
    /\ UNCHANGED combineVars

\* manifest.checkCompatibility(matrices[1], &error)
CheckManifest ==
    /\ op = "init"
    /\ \E c \in {checkCompatibility(matrices[1].hals, providedInstances)} :
           /\ ret' = c.ok
           /\ error' = c.error
    /\ op' = "checkCompatibility"
    /\ UNCHANGED <<vr, ver, str, hal, providedInstances, providedVersions, arg, calls, pre,
                   matrix, declared>>
    /\ UNCHANGED <<matrices, deviceLevel, kernelLevel, combined, kernels, runtime, env, vintf>>

\* assembleCompatibilityMatrix(&matrices) with the check manifest of level
\* deviceLevel; error holds what follows "Not compatible: "
AssembleAndCheck ==
    /\ op = "init"
    /\ \E r \in {checkAssembled(assembleCompatibilityMatrix(matrices, deviceLevel), env,
                                  providedInstances)} :
           /\ ret' = r.ok
           /\ combined' = r.matrix
           /\ error' = r.error
    /\ op' = "assembleCompatibilityMatrix"
    /\ UNCHANGED <<vr, ver, str, hal, providedInstances, providedVersions, arg, calls, pre,
                   matrix, declared>>
    /\ UNCHANGED <<matrices, deviceLevel, kernelLevel, kernels, runtime, env, vintf>>

NextCheck == ExpandInstances \/ CheckManifest \/ AssembleAndCheck

SpecCheck == InitCheck /\ [][NextCheck]_vars

(***************************************************************************)
(* The rendering of a requirement: claim C23.                              *)
(***************************************************************************)
\* the place of x in the sequence order
Position(order, x) == CHOOSE k \in 1..Len(order) : order[k] = x

\* pair a sorts before pair b: by interface name, then by instance name
PairBefore(a, b) ==
    \/ Position(InterfaceOrder, a[1]) < Position(InterfaceOrder, b[1])
    \/ /\ a[1] = b[1]
       /\ Position(InstanceOrder, a[2]) < Position(InstanceOrder, b[2])

\* the pairs of O from the smallest to the largest
RECURSIVE SortedObligations(_)
SortedObligations(O) ==
    IF O = {} THEN <<>>
    ELSE LET least == CHOOSE a \in O : \A b \in O \ {a} : PairBefore(a, b)
         IN <<least>> \o SortedObligations(O \ {least})

\* the pairs the requirement was built from, whatever their order and number
\* of insertions
Inserted == {pre[k] : k \in 1..Len(pre)}

\* the text of range r with the obligations O: sorted, joined by " AND ",
\* parenthesised when braced
RangeText(r, O, braced) ==
    LET sorted == SortedObligations(O)
        text == Join([k \in 1..Len(sorted) |->
                         "@" \o rangeToString(r) \o "::" \o sorted[k][1] \o "/" \o sorted[k][2]],
                     " AND ")
    IN IF braced THEN "(" \o text \o ")" ELSE text

\* str is the rendering of the ranges of hal in list order, all but the last
\* followed by " OR", each with the inserted pairs
RenderedAs(braced) ==
    /\ Len(str) = Len(hal.versionRanges)
    /\ \A k \in 1..Len(str) :
           str[k] = RangeText(hal.versionRanges[k], Inserted, braced)
                        \o (IF k < Len(str) THEN " OR" ELSE "")

\* C23 as stated: the rendering of a requirement with at least one obligation
\* is a function of its ranges and of the set of pairs inserted, with the
\* obligations of a range sorted and joined by " AND ", the ranges in list
\* order joined by " OR", and parentheses exactly when there are at least two
\* ranges and at least two obligations.
C23_BracedForTwoRangesAndTwoObligations ==
    (op = "expandInstances" /\ Inserted # {}) =>
        RenderedAs(Len(hal.versionRanges) >= 2 /\ Cardinality(Inserted) >= 2)

\* C23 amended: as above, with parentheses exactly when the requirement has at
\* least two obligations, whatever the number of its ranges.
C23_BracedForTwoObligations ==
    (op = "expandInstances" /\ Inserted # {}) =>
        RenderedAs(Cardinality(Inserted) >= 2)

\* C23 witness: IFoo/default was inserted before IBar/default into a
\* requirement of two ranges, and both ranges render IBar first, in
\* parentheses.
C23_Witness ==
    /\ op = "expandInstances"
    /\ pre = <<<<"IFoo", "default">>, <<"IBar", "default">>>>
    /\ hal.versionRanges = <<VersionRange3(1, 2, 3), VersionRange2(4, 5)>>
    /\ str = <<"(@1.2-3::IBar/default AND @1.2-3::IFoo/default) OR",
               "(@4.5::IBar/default AND @4.5::IFoo/default)">>

(***************************************************************************)
(* A manifest that omits the HAL of an entry: claim C21.  The diagnostic   *)
(* of a check: claim C22.                                                  *)
(***************************************************************************)
\* C21: a manifest that provides nothing for the HAL of a matrix entry is
\* compatible with the entry exactly when the entry is optional, and an
\* assembly run that enforces the check fails on a required entry and passes
\* an optional one.
C21_OmittedHalCompatibleIffOptional ==
    providedInstances = {} =>
        /\ op = "checkCompatibility" => (ret <=> hal.optional)
        /\ (op = "assembleCompatibilityMatrix"
                /\ "PRODUCT_ENFORCE_VINTF_MANIFEST" \in env) => (ret <=> hal.optional)

\* C21 witness: an enforcing assembly run wrote the matrix with its required
\* entry and failed against a manifest that provides nothing.
C21_Witness ==
    /\ op = "assembleCompatibilityMatrix"
    /\ "PRODUCT_ENFORCE_VINTF_MANIFEST" \in env
    /\ providedInstances = {}
    /\ ~hal.optional
    /\ Obligations(hal) = {<<"IFoo", "default">>}
    /\ combined.hals = <<hal>>
    /\ ~ret

TableRow(dm, fm, dcm, fcm, required) ==
    [dm |-> dm, fm |-> fm, dcm |-> dcm, fcm |-> fcm, required |-> required]

\* bool TableRow::meetsReqeuirement() const
meetsReqeuirement(row) ==
    IF ~row.required THEN TRUE
    ELSE IF row.dcm /\ ~row.fm THEN FALSE
    ELSE IF row.fcm /\ ~row.dm THEN FALSE
    ELSE TRUE

\* the table without a row
EmptyTable == [key \in {} |-> TableRow(FALSE, FALSE, FALSE, FALSE, FALSE)]

\* (*table)[key]: the row of key, a default TableRow when the table has none
rowOf(table, key) ==
    IF key \in DOMAIN table THEN table[key]
    ELSE TableRow(FALSE, FALSE, FALSE, FALSE, FALSE)

\* the table with row stored under key
withRow(table, key, row) ==
    [k \in DOMAIN table \cup {key} |-> IF k = key THEN row ELSE table[k]]

\* the RowMutator of a column: row->dm = true for column "dm", and so on
mutate(column, row) == [row EXCEPT ![column] = TRUE]

\* ManifestInstance::description() and MatrixInstance::description(version) of
\* a HIDL instance: foo@x.y::IFoo/instance
description(package, version, interface, instance) ==
    toFQNameString(package, to_string(version.majorVer) \o "." \o to_string(version.minorVer),
                   interface, instance)

\* void insert(const HalManifest* manifest, Table* table, const RowMutator& mutate)
\* from instance i of the manifest on
RECURSIVE insertManifest(_, _, _, _)
insertManifest(manifest, i, table, column) ==
    IF i > Len(manifest) THEN table
    ELSE LET key == description("foo", manifest[i].version, manifest[i].interface,
                                manifest[i].instance)
         IN insertManifest(manifest, i + 1,
                           withRow(table, key, mutate(column, rowOf(table, key))), column)

MatrixInstance(package, r, interface, instance, o) ==
    [package |-> package, versionRange |-> r, interface |-> interface,
     instance |-> instance, optional |-> o]

\* the matrix instances MatrixHal::forEachInstance(func) visits for h: for every
\* version range, every declared pair
matrixInstancesOf(h) ==
    LET pairs == SelectSeq(InstancePairs(h), LAMBDA p : setTo(h.name, p[1], p[2]))
    IN Concat([k \in 1..Len(h.versionRanges) |->
                  [j \in 1..Len(pairs) |->
                      MatrixInstance(h.name, h.versionRanges[k], pairs[j][1], pairs[j][2],
                                     h.optional)]])

\* the matrix instances CompatibilityMatrix::forEachInstance(func) visits
matrixInstances(hals) == Concat([k \in 1..Len(hals) |-> matrixInstancesOf(hals[k])])

\* the loop of insert over the minor versions of a matrix instance, from
\* minorVer on: a row that is not in the table yet is created and mutated; a
\* row that is there is mutated and, at the minimum version, marked required
RECURSIVE insertVersions(_, _, _, _)
insertVersions(mi, minorVer, table, column) ==
    IF ~(minorVer >= mi.versionRange.minMinor /\ minorVer <= mi.versionRange.maxMinor)
    THEN table
    ELSE LET key == description(mi.package, Version(mi.versionRange.majorVer, minorVer),
                                mi.interface, mi.instance)
         IN IF key \notin DOMAIN table
            THEN insertVersions(mi, minorVer + 1,
                                withRow(table, key, mutate(column, rowOf(table, key))), column)
            ELSE LET mutated == mutate(column, table[key])
                     row == IF minorVer = mi.versionRange.minMinor
                            THEN [mutated EXCEPT !.required = ~mi.optional]
                            ELSE mutated
                 IN insertVersions(mi, minorVer + 1, withRow(table, key, row), column)

\* void insert(const CompatibilityMatrix* matrix, Table* table, const RowMutator& mutate)
\* from matrix instance i on
RECURSIVE insertMatrix(_, _, _, _)
insertMatrix(instances, i, table, column) ==
    IF i > Len(instances) THEN table
    ELSE insertMatrix(instances, i + 1,
                      insertVersions(instances[i], instances[i].versionRange.minMinor,
                                     table, column),
                      column)

\* Table generateHalSummary(vm, fm, vcm, fcm); a document that is nullptr and a
\* document without an instance insert nothing
generateHalSummary(vm, fm, vcm, fcm) ==
    LET t1 == insertManifest(vm, 1, EmptyTable, "dm")
        t2 == insertManifest(fm, 1, t1, "fm")
        t3 == insertMatrix(matrixInstances(vcm), 1, t2, "dcm")
    IN insertMatrix(matrixInstances(fcm), 1, t3, "fcm")

(***************************************************************************)
(* SpecSummary: generateHalSummary over two manifests and two matrices.    *)
(* pre holds <<vm, fm>>, matrices holds <<vcm, fcm>>, ret the table.       *)
(***************************************************************************)
\* the instances of the manifests, in the order forEachInstance visits them
SummaryOrder ==
    <<FqInstance(Version(1, 0), "IFoo", "default"),
      FqInstance(Version(1, 1), "IFoo", "default"),
      FqInstance(Version(2, 0), "IFoo", "default")>>

SummaryManifests ==
    {Sorted(S, SummaryOrder) : S \in SUBSET {SummaryOrder[k] : k \in 1..Len(SummaryOrder)}}

\* the <hal> entries of the matrices
SummaryHals ==
    {MatrixHal("foo", ranges, o, FooDefault) :
        ranges \in {<<VersionRange3(1, 0, 1)>>, <<VersionRange2(1, 1)>>,
                    <<VersionRange3(1, 0, 1), VersionRange2(2, 0)>>},
        o \in BOOLEAN}

InitSummary ==
    /\ op = "init"
    /\ pre \in SummaryManifests \X SummaryManifests
    /\ matrices \in ({nullptr} \cup {<<h>> : h \in SummaryHals})
                        \X ({nullptr} \cup {<<h>> : h \in SummaryHals}
                                      \cup {<<h, g>> : h \in SummaryHals, g \in SummaryHals})
    /\ ret = EmptyTable
    /\ deviceLevel = 0
    /\ kernelLevel = 0
    /\ combined = <<>>
    /\ error = ""
    /\ kernels = <<>>
    /\ runtime = <<>>
    /\ env = {}
    /\ vintf = <<>>
    /\ vr = VersionRange0
    /\ ver = NoVersion
    /\ str = <<>>
    /\ hal = NoHal
    /\ providedInstances = {}
    /\ providedVersions = {}
    /\ arg = NoHal
    /\ calls = 0
    /\ matrix = NoMatrix
    /\ declared = <<>>

\* generateHalSummary(vm, fm, vcm, fcm)
GenerateHalSummary ==
    /\ op = "init"
    /\ ret' = generateHalSummary(pre[1], pre[2], matrices[1], matrices[2])
    /\ op' = "generateHalSummary"
    /\ UNCHANGED <<vr, ver, str, hal, providedInstances, providedVersions, arg, calls, pre,
                   matrix, declared>>
    /\ UNCHANGED combineVars

NextSummary == GenerateHalSummary

SpecSummary == InitSummary /\ [][NextSummary]_vars

(***************************************************************************)
(* The required mark of a row: claim C30.                                  *)
(***************************************************************************)
\* the matrix instances of the <hal> entries hals, as a set
InstancesIn(hals) == {matrixInstances(hals)[k] : k \in 1..Len(matrixInstances(hals))}

\* the description of the minimum version of matrix instance mi
MinimumOf(mi) ==
    description(mi.package, Version(mi.versionRange.majorVer, mi.versionRange.minMinor),
                mi.interface, mi.instance)

\* C30: a row of the table is marked required exactly when some non-optional
\* matrix instance has the row's version as the minimum of its range, whether
\* or not a manifest provides the version; so the row of a version the
\* framework matrix requires and the device manifest lacks, or the device
\* matrix requires and the framework manifest lacks, does not meet the
\* requirement.
C30_RequiredIffMinimumOfRequiredInstance ==
    op = "generateHalSummary" =>
        /\ \A key \in DOMAIN ret :
               ret[key].required <=>
                   \E mi \in InstancesIn(matrices[1]) \cup InstancesIn(matrices[2]) :
                       ~mi.optional /\ MinimumOf(mi) = key
        /\ \A mi \in InstancesIn(matrices[2]) :
               (~mi.optional /\ ~ret[MinimumOf(mi)].dm) => ~meetsReqeuirement(ret[MinimumOf(mi)])
        /\ \A mi \in InstancesIn(matrices[1]) :
               (~mi.optional /\ ~ret[MinimumOf(mi)].fm) => ~meetsReqeuirement(ret[MinimumOf(mi)])

(***************************************************************************)
(* SpecGet: threads call the document getters of one VintfObject           *)
(* (VintfObject.h).  vintf holds, for every cached document, the           *)
(* LockedSharedPtr (object, mutex) and the document under construction,    *)
(* for every thread its place in the getter, the number of reads of the    *)
(* source files and the calls that returned, in the order they returned.   *)
(***************************************************************************)
\* most getter calls made on one VintfObject
MaxGets == 4

Threads == {1, 2}

\* the cached documents of two getters
Documents == {"mDeviceManifest", "mFrameworkManifest"}

\* a document: its identity and whether fetchAllInformation has filled it in
Document(id, filled) == [id |-> id, filled |-> filled]

\* the empty std::shared_ptr
NoObject == Document(0, FALSE)

\* details::LockedSharedPtr<T>: object and mutex (0 when no thread holds it)
LockedSharedPtr(object, mutex) == [object |-> object, mutex |-> mutex]

\* the lock of ptr->mutex taken whether or not another thread holds it
lockIgnored(ptr) == TRUE

\* std::unique_lock<std::mutex> _lock(ptr->mutex) can be taken
lockFree(ptr) == ptr.mutex = 0

\* the object left in the cache by a fetch that stores what it built whatever
\* the status
storeAlways(ptr, uptr, ok) == uptr

\* the object left in the cache after fetchAllInformation(uptr) returned: the
\* document built on success, what was there before on an error
store(ptr, uptr, ok) == IF ok THEN uptr ELSE ptr.object

InitGet ==
    /\ op = "init"
    /\ vintf = [ptr |-> [d \in Documents |-> LockedSharedPtr(NoObject, 0)],
                uptr |-> [d \in Documents |-> NoObject],
                pc |-> [t \in Threads |-> "idle"],
                doc |-> [t \in Threads |-> "mDeviceManifest"],
                reads |-> 0,
                returned |-> <<>>]
    /\ calls = 0
    /\ ret = FALSE
    /\ matrices = <<>>
    /\ deviceLevel = 0
    /\ kernelLevel = 0
    /\ combined = <<>>
    /\ error = ""
    /\ kernels = <<>>
    /\ runtime = <<>>
    /\ env = {}
    /\ vr = VersionRange0
    /\ ver = NoVersion
    /\ str = <<>>
    /\ hal = NoHal
    /\ providedInstances = {}
    /\ providedVersions = {}
    /\ arg = NoHal
    /\ pre = <<>>
    /\ matrix = NoMatrix
    /\ declared = <<>>

\* the variables the getters leave alone
otherVarsG == <<vr, ver, str, hal, providedInstances, providedVersions, arg, pre, matrix,
                declared, ret, matrices, deviceLevel, kernelLevel, combined, error, kernels,
                runtime, env>>

\* thread t calls the getter of document d and takes the lock of its cache
GetLock(t, d) ==
    /\ vintf.pc[t] = "idle"
    /\ calls < MaxGets
    /\ lockFree(vintf.ptr[d])
    /\ vintf' = [vintf EXCEPT !.pc[t] = "locked", !.doc[t] = d, !.ptr[d].mutex = t]
    /\ calls' = calls + 1
    /\ op' = "lock"
    /\ UNCHANGED otherVarsG

\* thread t finds the object in the cache and returns it
GetCached(t) ==
    LET d == vintf.doc[t] IN
    /\ vintf.pc[t] = "locked"
    /\ vintf.ptr[d].object # NoObject
    /\ vintf' = [vintf EXCEPT !.pc[t] = "idle", !.ptr[d].mutex = 0,
                              !.returned = Append(@, [thread |-> t, doc |-> d,
                                                      object |-> vintf.ptr[d].object,
                                                      read |-> FALSE, failed |-> FALSE])]
    /\ op' = "return"
    /\ UNCHANGED <<calls, otherVarsG>>

\* thread t finds the cache empty and makes a new document to fill in
GetBuild(t) ==
    LET d == vintf.doc[t] IN
    /\ vintf.pc[t] = "locked"
    /\ vintf.ptr[d].object = NoObject
    /\ vintf' = [vintf EXCEPT !.pc[t] = "fetching",
                              !.uptr[d] = Document(vintf.reads + 1, FALSE),
                              !.reads = @ + 1]
    /\ op' = "make_unique"
    /\ UNCHANGED <<calls, otherVarsG>>

\* fetchAllInformation(uptr) returns to thread t, with OK or with an error; the
\* getter stores the document on OK and returns what the cache holds
GetFetched(t, ok) ==
    LET d == vintf.doc[t]
        uptr == Document(vintf.uptr[d].id, ok)
        object == store(vintf.ptr[d], uptr, ok)
    IN
    /\ vintf.pc[t] = "fetching"
    /\ vintf' = [vintf EXCEPT !.pc[t] = "idle",
                              !.uptr[d] = NoObject,
                              !.ptr[d] = LockedSharedPtr(object, 0),
                              !.returned = Append(@, [thread |-> t, doc |-> d,
                                                      object |-> object, read |-> TRUE,
                                                      failed |-> ~ok])]
    /\ op' = IF ok THEN "fetched" ELSE "failed"
    /\ UNCHANGED <<calls, otherVarsG>>

NextGet ==
    \E t \in Threads :
        \/ \E d \in Documents : GetLock(t, d)
        \/ GetCached(t)
        \/ GetBuild(t)
        \/ \E ok \in BOOLEAN : GetFetched(t, ok)

SpecGet == InitGet /\ [][NextGet]_vars

(***************************************************************************)
(* The getters over a sequence of calls: claim C27.                        *)
(***************************************************************************)
\* the calls on document d that returned, in the order they returned
ReturnedFor(d) == SelectSeq(vintf.returned, LAMBDA c : c.doc = d)

====
